---- MODULE Spec2Model ----
(***************************************************************************)
(* A model of the SQON/Nuvira document orchestrator (SQON.parseLines and   *)
(* its section compilers) and of the validation-rule compiler              *)
(* (SQONValidation).                                                       *)
(*                                                                         *)
(* Text.  A JavaScript string is modelled as the sequence of its tokens: a *)
(* token is a maximal piece of text that holds none of the separators the  *)
(* code splits or tests on; the separators ("->", ",", "=", ".", ":", "[", *)
(* "]", "{", "}", the double quote and the blank) are tokens of their own. *)
(* split, trim, startsWith, endsWith, slice and includes are computed on   *)
(* these sequences as the code computes them on the characters.            *)
(***************************************************************************)
EXTENDS Integers, Sequences, FiniteSets, TLC

\* ------------------------------------------------------------------ text

SP == " "
QUOTE == "\""

Includes(s, x) == \E i \in 1..Len(s) : s[i] = x

Min(a, b) == IF a < b THEN a ELSE b

Take(s, n) == SubSeq(s, 1, Min(n, Len(s)))

\* String.prototype.split(sep): the pieces between the occurrences of sep,
\* always at least one piece.
Split(s, sep) ==
    LET RECURSIVE go(_, _, _)
        go(i, cur, acc) ==
            IF i > Len(s) THEN Append(acc, cur)
            ELSE IF s[i] = sep THEN go(i + 1, <<>>, Append(acc, cur))
            ELSE go(i + 1, Append(cur, s[i]), acc)
    IN go(1, <<>>, <<>>)

\* String.prototype.trim()
Trim(s) ==
    LET RECURSIVE lead(_)
        lead(i) == IF i <= Len(s) /\ s[i] = SP THEN lead(i + 1) ELSE i
        RECURSIVE trail(_)
        trail(j) == IF j >= 1 /\ s[j] = SP THEN trail(j - 1) ELSE j
    IN SubSeq(s, lead(1), trail(Len(s)))

StartsWith(s, t) == Len(s) >= 1 /\ s[1] = t
EndsWith(s, t) == Len(s) >= 1 /\ s[Len(s)] = t
\* s.slice(1, -1)
Slice1(s) == SubSeq(s, 2, Len(s) - 1)

\* The tokens that match /^\d+$/ and /^\d+\.\d+$/.
IntTokens == {"1", "5", "8", "10", "20", "70"}
FloatTokens == {"3.14"}
IsDigits(s) == Len(s) = 1 /\ s[1] \in IntTokens
IsFloat(s) == Len(s) = 1 /\ s[1] \in FloatTokens

\* The names every plain JavaScript object inherits from Object.prototype:
\* obj[name] is a function for them although name is no key of obj.
ObjectPrototypeNames ==
    {"constructor", "toString", "valueOf", "hasOwnProperty", "isPrototypeOf",
     "propertyIsEnumerable", "toLocaleString"}

\* obj[name] of a plain object whose own keys are `keys`, name a string:
\* "own", "inherited" (truthy, a function) or "undefined".
JsGet(keys, name) ==
    IF Len(name) = 1 /\ name[1] \in keys THEN "own"
    ELSE IF Len(name) = 1 /\ name[1] \in ObjectPrototypeNames THEN "inherited"
    ELSE "undefined"

\* A Diagnostic {line, message}.
Diag(n, msg) == [line |-> n, message |-> msg]

\* ------------------------------------------------- validation compiler

\* A parsed rule value: k is its JavaScript kind ("boolean", "null",
\* "undefined", "number", "array", "object", "string"), v what it holds.
Val(k, v) == [k |-> k, v |-> v]

\* The literals isValidDate accepts by one of its patterns, and those among
\* them that Date.parse rejects.
DateTokens == {"2024-01-01", "99/99/9999"}
UnparsableDateTokens == {"99/99/9999"}

\* SQONValidation.isValidDate on a string.
isValidDate(s) == Len(s) = 1 /\ s[1] \in DateTokens

\* SQONValidation.parseValue on the text of an object member: the stored
\* {value, type} or {error, type: 'error'}, k the type and v the value or
\* the error text.
parseValue(value) ==
    IF value = <<>> THEN [k |-> "undefined", v |-> <<>>]
    ELSE IF StartsWith(value, QUOTE) /\ EndsWith(value, QUOTE)
        THEN IF Slice1(value) = <<>> THEN [k |-> "undefined", v |-> <<>>]
             ELSE [k |-> "String", v |-> Slice1(value)]
    ELSE IF StartsWith(value, "<Buffer") /\ EndsWith(value, ">")
        THEN [k |-> "Binary", v |-> value]
    ELSE IF Len(value) >= 2 /\ value[1] = "Uint8Array" /\ value[2] = "[" /\ EndsWith(value, "]")
        THEN [k |-> "Uint8Array", v |-> value]
    ELSE IF IsDigits(value) \/ IsFloat(value) THEN [k |-> "Number", v |-> value]
    ELSE IF value = <<"TRUE">> THEN [k |-> "Boolean", v |-> <<"true">>]
    ELSE IF value = <<"FALSE">> THEN [k |-> "Boolean", v |-> <<"false">>]
    ELSE IF value = <<"NULL">> THEN [k |-> "Null", v |-> <<>>]
    ELSE IF value = <<"undefined">> THEN [k |-> "undefined", v |-> <<>>]
    ELSE IF isValidDate(value)
        THEN IF value[1] \in UnparsableDateTokens
             THEN [k |-> "error", v |-> <<"Invalid date format: '">> \o value \o <<"'.">>]
             ELSE [k |-> "Date", v |-> value]
    ELSE [k |-> "error", v |-> <<"Invalid value format: '">> \o value \o <<"'.">>]

\* SQONValidation.parseArray: the trimmed pieces between the commas.
parseArray(content) ==
    LET items == Split(content, ",")
    IN [i \in 1..Len(items) |-> Trim(items[i])]

\* objectContent ? this.parseObject(objectContent) : {} -- out is "value"
\* with the members in val, or "throw" (a member without ':' hands
\* undefined to parseValue, whose value.startsWith raises a TypeError).
parseObject(content) ==
    LET pairs == IF content # <<>> THEN Split(content, ",") ELSE <<>>
        RECURSIVE go(_, _)
        go(i, acc) ==
            IF i > Len(pairs) THEN [out |-> "value", val |-> acc]
            ELSE LET kv == Split(Trim(pairs[i]), ":")
                     key == Trim(kv[1])
                     parsedKey == IF StartsWith(key, QUOTE) /\ EndsWith(key, QUOTE)
                                  THEN Slice1(key) ELSE key
                 IN IF Len(kv) < 2 THEN [out |-> "throw", val |-> acc]
                    ELSE go(i + 1, Append(SelectSeq(acc, LAMBDA m : m.name # parsedKey),
                                          [name |-> parsedKey, value |-> parseValue(Trim(kv[2]))]))
    IN go(1, <<>>)

ObjectLiteral(o) == [out |-> o.out, val |-> Val("object", o.val)]

\* The literal grammar of parseRules for one clause (part_000 lines 73-143):
\* isDefault selects the spelling of the boolean and null keywords. out is
\* "value" (val is stored), "error" (a Diagnostic) or "throw": a clause
\* without '=' leaves ruleValue undefined and ruleValue.startsWith raises.
parseRuleValue(isDefault, hasValue, ruleValue) ==
    LET t == IF isDefault THEN <<"TRUE">> ELSE <<"true">>
        f == IF isDefault THEN <<"FALSE">> ELSE <<"false">>
        n == IF isDefault THEN <<"NULL">> ELSE <<"null">>
    IN  IF ~hasValue THEN [out |-> "throw", val |-> Val("undefined", <<>>)]
        ELSE IF ruleValue = t THEN [out |-> "value", val |-> Val("boolean", <<"true">>)]
        ELSE IF ruleValue = f THEN [out |-> "value", val |-> Val("boolean", <<"false">>)]
        ELSE IF ruleValue = n THEN [out |-> "value", val |-> Val("null", <<>>)]
        ELSE IF ruleValue = <<"undefined">> THEN [out |-> "value", val |-> Val("undefined", <<>>)]
        ELSE IF IsDigits(ruleValue) THEN [out |-> "value", val |-> Val("number", ruleValue)]
        ELSE IF IsFloat(ruleValue) THEN [out |-> "value", val |-> Val("number", ruleValue)]
        ELSE IF StartsWith(ruleValue, "[") /\ EndsWith(ruleValue, "]")
            THEN LET arrayContent == Trim(Slice1(ruleValue))
                 IN [out |-> "value",
                     val |-> Val("array", IF arrayContent # <<>> THEN parseArray(arrayContent) ELSE <<>>)]
        ELSE IF StartsWith(ruleValue, "{") /\ EndsWith(ruleValue, "}")
            THEN ObjectLiteral(parseObject(Trim(Slice1(ruleValue))))
        ELSE IF StartsWith(ruleValue, QUOTE) /\ EndsWith(ruleValue, QUOTE)
            THEN [out |-> "value", val |-> Val("string", Slice1(ruleValue))]
        ELSE [out |-> "error", val |-> Val("undefined", <<>>)]

\* rules[ruleName] = val on an object kept as the list of its entries in
\* insertion order: an existing key keeps its place.
SetRule(rules, name, val) ==
    IF \E i \in 1..Len(rules) : rules[i].name = name
    THEN [i \in 1..Len(rules) |->
            IF rules[i].name = name THEN [name |-> name, value |-> val] ELSE rules[i]]
    ELSE Append(rules, [name |-> name, value |-> val])

\* {...a, ...b}
Spread(a, b) ==
    LET RECURSIVE go(_, _)
        go(i, acc) == IF i > Len(b) THEN acc
                      ELSE go(i + 1, SetRule(acc, b[i].name, b[i].value))
    IN go(1, a)

RuleNames(rules) == {rules[i].name : i \in 1..Len(rules)}
RuleValueOf(rules, name) == (CHOOSE i \in 1..Len(rules) : rules[i].name = name)

\* One clause of parseRules, its pieces around '=' and its parsed value r
\* given: the rule is stored, or a Diagnostic pushed, or the call raises.
storeClause(acc, rule, ruleName, r, lineNo) ==
    CASE r.out = "value" -> [acc EXCEPT !.rules = SetRule(@, ruleName, r.val)]
      [] r.out = "error" ->
           [acc EXCEPT !.errs = Append(@, Diag(lineNo,
               <<"Invalid format for value of '">> \o ruleName
               \o <<"' in '">> \o rule \o <<"'">>))]
      [] OTHER -> [acc EXCEPT !.thrown = TRUE]

\* One clause of a parseRules that knows the lowercase keywords only.
parseClauseOneSpelling(acc, rule, pieces, lineNo) ==
    storeClause(acc, rule, Trim(pieces[1]),
                parseRuleValue(FALSE, Len(pieces) >= 2,
                               IF Len(pieces) >= 2 THEN Trim(pieces[2]) ELSE <<>>),
                lineNo)

parseClause(acc, rule, pieces, lineNo) ==
    storeClause(acc, rule, Trim(pieces[1]),
                parseRuleValue(Trim(pieces[1]) = <<"default">>, Len(pieces) >= 2,
                               IF Len(pieces) >= 2 THEN Trim(pieces[2]) ELSE <<>>),
                lineNo)

\* SQONValidation.parseRules: the rules of the line, the Diagnostics it
\* pushed, and whether it raised.
RECURSIVE parseClauses(_, _, _, _)
parseClauses(clauses, i, acc, lineNo) ==
    IF i > Len(clauses) \/ acc.thrown THEN acc
    ELSE parseClauses(clauses, i + 1,
                      parseClause(acc, clauses[i], Split(clauses[i], "="), lineNo), lineNo)

parseRules(rulesStr, lineNo) ==
    parseClauses(Split(rulesStr, ","), 1, [rules |-> <<>>, errs |-> <<>>, thrown |-> FALSE], lineNo)

\* The rule applicability table the orchestrator hands to the validation
\* compiler (parser.js lines 96-125).
validationKeywords ==
    LET lengthTypes == <<"String", "StringArray", "String[]", "ObjectArray", "Object[]", "Array",
                         "Any[]", "[]", "Object", "NumberArray", "Number[]", "Uint8Array">>
        dateTypes == <<"Date", "StringArray", "String[]", "NumberArray", "Number[]">>
        numberTypes == <<"Number", "NumberArray", "Number[]", "Uint8Array">>
        stringTypes == <<"String", "String[]", "StringArray">>
    IN  [minLength |-> lengthTypes, maxLength |-> lengthTypes,
         isDate |-> dateTypes, minDate |-> dateTypes, maxDate |-> dateTypes,
         isBoolean |-> <<"Boolean", "Array", "Any[]", "[]">>,
         hasProperties |-> <<"Object", "ObjectArray", "Object[]">>,
         enum |-> <<"Any">>, notNull |-> <<"Any">>, pattern |-> <<"Any">>,
         isUnique |-> <<"Any">>, required |-> <<"Any">>, isNull |-> <<"Any">>,
         min |-> numberTypes, max |-> numberTypes,
         isPositive |-> numberTypes, isNegative |-> numberTypes,
         isNumeric |-> <<"NumberArray", "Number[]", "Number">>,
         isInteger |-> <<"Number", "NumberArray", "Number[]">>,
         isFloat |-> <<"Number", "NumberArray", "Number[]">>,
         isEmail |-> <<"String", "StringArray", "String[]">>,
         isURL |-> stringTypes, isAlpha |-> stringTypes, isAlphanumeric |-> stringTypes,
         isIP |-> stringTypes, trim |-> stringTypes, lowercase |-> stringTypes,
         uppercase |-> stringTypes]

\* this.validationKeywords[ruleName]: "own", "inherited" or "undefined".
KeywordStatus(ruleName) == JsGet(DOMAIN validationKeywords, ruleName)

\* What [x.type] holds when x.type is undefined (no type tag equals it).
JsUndefined == "<undefined>"

\* A SchemaNode {type, properties?, items?}; properties and items map a
\* field name to a SchemaNode.
Node(type, hasProperties, properties, hasItems, items) ==
    [type |-> type, hasProperties |-> hasProperties, properties |-> properties,
     hasItems |-> hasItems, items |-> items]
Leaf(type) == Node(type, FALSE, <<>>, FALSE, <<>>)

\* SQONValidation.getSchemaType: the type tags the dot-path resolves to,
\* the empty array when it does not resolve.
getSchemaType(parsedSchema, key) ==
    LET parts == Split(key, ".")
        RECURSIVE processPart(_, _)
        processPart(current, index) ==
            LET part == parts[index]
                st == JsGet(DOMAIN current, part)
            IN  IF index = Len(parts)
                THEN IF st = "own" THEN current[part[1]].type
                     ELSE IF st = "inherited" THEN <<JsUndefined>>
                     ELSE <<>>
                ELSE IF st = "own"
                THEN IF Includes(current[part[1]].type, "Object") /\ current[part[1]].hasProperties
                     THEN processPart(current[part[1]].properties, index + 1)
                     ELSE IF Includes(current[part[1]].type, "ObjectArray") /\ current[part[1]].hasItems
                     THEN processPart(current[part[1]].items, index + 1)
                     ELSE <<>>
                ELSE <<>>
    IN processPart(parsedSchema, 1)

\* !schemaTypeArray: an array, also the empty one, is truthy in JavaScript.
SchemaTypeMissing(schemaTypeArray) == FALSE

\* parts[parts.length - 2]; undefined, used as a key, is the name "undefined".
SecondLast(parts) == IF Len(parts) >= 2 THEN parts[Len(parts) - 1] ELSE <<"undefined">>

\* SQONValidation.validateObjectArrayItems
validateObjectArrayItems(parsedSchema, key, rules, lineNo) ==
    LET arrayKey == SecondLast(Split(key, "."))
        hasItem == JsGet(DOMAIN parsedSchema, arrayKey) = "own" /\ parsedSchema[arrayKey[1]].hasItems
        RECURSIVE go(_, _)
        go(i, acc) ==
            IF i > Len(rules) \/ acc.thrown THEN acc
            ELSE LET ruleName == rules[i].name
                     st == KeywordStatus(ruleName)
                 IN go(i + 1,
                       IF st = "inherited" THEN [acc EXCEPT !.thrown = TRUE]
                       ELSE IF st = "own" /\ ~Includes(validationKeywords[ruleName[1]], "Object")
                       THEN [acc EXCEPT !.errs = Append(@, Diag(lineNo,
                                <<"Validation '">> \o ruleName
                                \o <<"' is not applicable to type 'ObjectArray' items for key '">>
                                \o key \o <<"'">>))]
                       ELSE acc)
    IN IF hasItem THEN go(1, [errs |-> <<>>, thrown |-> FALSE])
       ELSE [errs |-> <<>>, thrown |-> FALSE]

\* SQONValidation.validateObjectProperties
validateObjectProperties(parsedSchema, key, rules, lineNo) ==
    LET parts == Split(key, ".")
        objectKey == SecondLast(parts)
        last == parts[Len(parts)]
        hasProps == JsGet(DOMAIN parsedSchema, objectKey) = "own"
                    /\ parsedSchema[objectKey[1]].hasProperties
        schemaProperties == parsedSchema[objectKey[1]].properties
        pst == JsGet(DOMAIN schemaProperties, last)
        \* propSchema.type of an inherited member is undefined: .some raises.
        RECURSIVE go(_, _)
        go(i, acc) ==
            IF i > Len(rules) \/ acc.thrown THEN acc
            ELSE LET ruleName == rules[i].name
                     st == KeywordStatus(ruleName)
                 IN go(i + 1,
                       IF pst = "undefined" \/ st = "undefined" THEN acc
                       ELSE IF pst = "inherited" THEN [acc EXCEPT !.thrown = TRUE]
                       ELSE LET propTypes == schemaProperties[last[1]].type
                            IN IF propTypes = <<>> THEN
                                  [acc EXCEPT !.errs = Append(@, Diag(lineNo,
                                     <<"Validation '">> \o ruleName
                                     \o <<"' is not applicable to property '">> \o last
                                     \o <<"' of Object for key '">> \o key \o <<"'">>))]
                               ELSE IF st = "inherited" THEN [acc EXCEPT !.thrown = TRUE]
                               ELSE IF \E j \in 1..Len(propTypes) :
                                          \/ Includes(validationKeywords[ruleName[1]], propTypes[j])
                                          \/ Includes(validationKeywords[ruleName[1]], "Any")
                               THEN acc
                               ELSE [acc EXCEPT !.errs = Append(@, Diag(lineNo,
                                     <<"Validation '">> \o ruleName
                                     \o <<"' is not applicable to property '">> \o last
                                     \o <<"' of Object for key '">> \o key \o <<"'">>))])
    IN IF hasProps THEN go(1, [errs |-> <<>>, thrown |-> FALSE])
       ELSE [errs |-> <<>>, thrown |-> FALSE]

\* typeof / Array.isArray / isValidDate of a rule value against one type tag
\* (part_000 lines 192-212). new Date(x) is a valid date for a number, a
\* boolean and null, and an invalid one for undefined and for an object.
ValueMatchesType(type, ruleValue) ==
    \/ type = "String" /\ ruleValue.k = "string"
    \/ type \in {"Number", "NumberArray"} /\ ruleValue.k = "number"
    \/ type = "Boolean" /\ ruleValue.k = "boolean"
    \/ type \in {"Array", "ObjectArray", "AnyArray"} /\ ruleValue.k = "array"
    \/ type = "Object" /\ ruleValue.k \in {"object", "null"}
    \/ type = "Date" /\ \/ ruleValue.k \in {"number", "boolean", "null"}
                        \/ ruleValue.k = "string" /\ isValidDate(ruleValue.v)

AddChecks(acc, errs, sub) ==
    [errs |-> acc.errs \o errs \o sub.errs, thrown |-> sub.thrown]

NotDefined(lineNo, ruleName) ==
    Diag(lineNo, <<"Validation rule '">> \o ruleName \o <<"' is not defined.">>)

\* SQONValidation.validateRulesAgainstSchema: the Diagnostics it pushes and
\* whether it raised (validTypes.includes on an inherited member is no
\* function).
validateRulesAgainstSchema(parsedSchema, key, rules, lineNo) ==
    LET schemaTypeArray == getSchemaType(parsedSchema, key)
        none == [errs |-> <<>>, thrown |-> FALSE]
        RECURSIVE go(_, _)
        go(i, acc) ==
            IF i > Len(rules) \/ acc.thrown THEN acc
            ELSE LET ruleName == rules[i].name
                     ruleValue == rules[i].value
                     st == KeywordStatus(ruleName)
                     validTypes == validationKeywords[ruleName[1]]
                     isApplicable ==
                        \/ Includes(validTypes, "Any")
                        \/ \E j \in 1..Len(schemaTypeArray) : Includes(validTypes, schemaTypeArray[j])
                     e1 == IF isApplicable THEN <<>>
                           ELSE <<Diag(lineNo, <<"Validation '">> \o ruleName
                                   \o <<"' is not applicable to types for key '">> \o key \o <<"'">>)>>
                     isValueTypeValid ==
                        \E j \in 1..Len(schemaTypeArray) : ValueMatchesType(schemaTypeArray[j], ruleValue)
                     e2 == IF ruleName \in {<<"default">>, <<"isEqualTo">>} /\ ~isValueTypeValid
                           THEN <<Diag(lineNo, <<"Invalid value type for '">> \o ruleName \o <<"' in '">>
                                   \o key \o <<"'. Expected one of: ">> \o schemaTypeArray)>>
                           ELSE <<>>
                     sub == IF Includes(schemaTypeArray, "ObjectArray")
                            THEN validateObjectArrayItems(parsedSchema, key, rules, lineNo)
                            ELSE IF Includes(schemaTypeArray, "Object")
                            THEN validateObjectProperties(parsedSchema, key, rules, lineNo)
                            ELSE none
                 IN go(i + 1,
                       IF st = "undefined"
                       THEN [acc EXCEPT !.errs = Append(@, NotDefined(lineNo, ruleName))]
                       ELSE IF st = "inherited" THEN [acc EXCEPT !.thrown = TRUE]
                       ELSE AddChecks(acc, e1 \o e2, sub))
    IN IF SchemaTypeMissing(schemaTypeArray)
       THEN [errs |-> <<Diag(lineNo, <<"Schema type not found for '">> \o key \o <<"'">>)>>,
             thrown |-> FALSE]
       ELSE go(1, none)

\* JavaScript truthiness of a stored value.
Truthy(val) ==
    CASE val.k = "boolean" -> val.v = <<"true">>
      [] val.k \in {"null", "undefined"} -> FALSE
      [] val.k = "string" -> val.v # <<>>
      [] OTHER -> TRUE

\* obj[name] of an object kept as its list of entries.
GetEntry(entries, name) ==
    IF \E i \in 1..Len(entries) : entries[i].name = name
    THEN entries[CHOOSE i \in 1..Len(entries) : entries[i].name = name].value
    ELSE Val("undefined", <<>>)

\* SQONValidation.addValidation on the RuleSet `entries`: a node is an
\* object whose entry "rules" holds the rules and whose other entries are
\* the child nodes. Assigning a property to a primitive raises a TypeError
\* (the module is strict-mode code).
RECURSIVE addAt(_, _, _, _)
addAt(entries, parts, i, rules) ==
    LET part == parts[i]
        cur == GetEntry(entries, part)
    IN  IF i = Len(parts)
        THEN LET node == IF Truthy(cur) THEN cur
                         ELSE Val("object", <<[name |-> <<"rules">>, value |-> Val("object", <<>>)]>>)
                 old == GetEntry(node.v, <<"rules">>)
                 oldRules == IF old.k = "object" THEN old.v ELSE <<>>
             IN IF node.k # "object" THEN [thrown |-> TRUE, entries |-> entries]
                ELSE [thrown |-> FALSE,
                      entries |-> SetRule(entries, part,
                          Val("object", SetRule(node.v, <<"rules">>,
                                                Val("object", Spread(oldRules, rules)))))]
        ELSE LET node == IF Truthy(cur) THEN cur ELSE Val("object", <<>>)
                 sub == addAt(node.v, parts, i + 1, rules)
             IN IF node.k # "object" THEN [thrown |-> TRUE, entries |-> entries]
                ELSE [thrown |-> sub.thrown,
                      entries |-> SetRule(entries, part, Val("object", sub.entries))]

addValidation(validations, key, rules) == addAt(validations, Split(key, "."), 1, rules)

\* The state of one SQONValidation instance: its validations, errors and
\* position, and whether a call raised.
Compiler(validations, errors, position, thrown) ==
    [validations |-> validations, errors |-> errors, position |-> position, thrown |-> thrown]

\* processValidationLine, lines 45-47: the rules are merged when no
\* Diagnostic of the instance carries this line's number.
mergeUnlessReported(c, key, rules, errs, add) ==
    IF \E j \in 1..Len(errs) : errs[j].line = c.position + 1
    THEN Compiler(c.validations, errs, c.position, FALSE)
    ELSE Compiler(add.entries, errs, c.position, add.thrown)

\* processValidationLine, lines 44-47, the parsed rules pr given.
checkAndMerge(c, parsedSchema, key, pr, vr) ==
    IF pr.thrown THEN Compiler(c.validations, c.errors \o pr.errs, c.position, TRUE)
    ELSE IF vr.thrown THEN Compiler(c.validations, c.errors \o pr.errs \o vr.errs, c.position, TRUE)
    ELSE mergeUnlessReported(c, key, pr.rules, c.errors \o pr.errs \o vr.errs,
                             addValidation(c.validations, key, pr.rules))

validateParsed(c, parsedSchema, key, pr) ==
    checkAndMerge(c, parsedSchema, key, pr,
                  IF pr.thrown THEN [errs |-> <<>>, thrown |-> FALSE]
                  ELSE validateRulesAgainstSchema(parsedSchema, key, pr.rules, c.position + 1))

\* SQONValidation.processValidationLine (line contains "->")
processLinePieces(c, parsedSchema, pieces) ==
    validateParsed(c, parsedSchema, Trim(pieces[1]), parseRules(Trim(pieces[2]), c.position + 1))

processValidationLine(c, parsedSchema, line) ==
    processLinePieces(c, parsedSchema, Split(line, "->"))

\* this.position++ after a line that did not raise
Advance(d) == IF d.thrown THEN d ELSE [d EXCEPT !.position = @ + 1]

\* One iteration of the loop of parseValidation on a line other than @end.
validationLine(c, parsedSchema, rawLine) ==
    LET line == Trim(rawLine)
    IN  IF StartsWith(line, "!#") THEN [c EXCEPT !.position = @ + 1]
        ELSE IF Includes(line, "->")
        THEN Advance(processValidationLine(c, parsedSchema, line))
        ELSE IF line # <<>>
        THEN [c EXCEPT !.errors = Append(@, Diag(c.position + 1,
                            <<"Invalid validation line: \"">> \o line \o <<"\"">>)),
                       !.position = @ + 1]
        ELSE [c EXCEPT !.position = @ + 1]

\* The loop of parseValidation stops at end of input and on @end.
validationStops(c, lines) ==
    IF c.position >= Len(lines) THEN TRUE ELSE Trim(lines[c.position + 1]) = <<"@end">>

\* SQONValidation.parseValidation, from a fresh instance at `position`.
RECURSIVE runValidation(_, _, _)
runValidation(c, parsedSchema, lines) ==
    IF c.thrown \/ validationStops(c, lines) THEN c
    ELSE runValidation(validationLine(c, parsedSchema, lines[c.position + 1]), parsedSchema, lines)

parseValidationFrom(lines, position, parsedSchema) ==
    runValidation(Compiler(<<>>, <<>>, position, FALSE), parsedSchema, lines)

\* ------------------------------------------ schema and record compilers

\* The type vocabulary the orchestrator hands to the schema compiler.
allowedTypes ==
    {"Number", "String", "Binary", "Date", "Boolean", "Uint8Array", "Object", "Any[]",
     "StringArray", "String[]", "ObjectArray", "NumberArray", "Number[]", "Object[]",
     "Null", "undefined", "Array", "[]", "Any", "AnyArray"}

\* What a section compiler hands back to the orchestrator: its value (the
\* Schema Tree, the RuleSet or the records), its Diagnostics, the cursor,
\* and whether it raised instead of returning.
Compiled(value, errors, position, thrown) ==
    [value |-> value, errors |-> errors, position |-> position, thrown |-> thrown]

\* The schema compiler on flat lines `key -> Type | Type`: it skips comment
\* lines, adds a field whose type tokens all belong to the vocabulary
\* (a later declaration of a key replaces the earlier one), reports any
\* other line, and stops on @end with the cursor on it.
RECURSIVE runSchema(_, _)
runSchema(c, lines) ==
    IF c.position >= Len(lines) \/ Trim(lines[c.position + 1]) = <<"@end">> THEN c
    ELSE LET line == Trim(lines[c.position + 1])
             pieces == Split(line, "->")
             key == Trim(pieces[1])
             raw == Split(Trim(pieces[2]), "|")
             types == [i \in 1..Len(raw) |-> Trim(raw[i])]
             ok == /\ Len(pieces) = 2 /\ Len(key) = 1
                   /\ \A i \in 1..Len(types) : Len(types[i]) = 1 /\ types[i][1] \in allowedTypes
             tags == [i \in 1..Len(types) |-> types[i][1]]
             bad == Diag(c.position + 1, <<"Invalid schema line: \"">> \o line \o <<"\"">>)
         IN runSchema(
               IF StartsWith(line, "!#") THEN [c EXCEPT !.position = @ + 1]
               ELSE IF ok THEN [c EXCEPT !.value = (key[1] :> Leaf(tags)) @@ @, !.position = @ + 1]
               ELSE [c EXCEPT !.errors = Append(@, bad), !.position = @ + 1],
               lines)

\* The record compiler on one-line records `#<n> -> term; ...;`: a record
\* per such line, a Diagnostic for any other line, stopping on @end with
\* the cursor on it.
IndexTokens == {"#0", "#1"}
RECURSIVE runRecords(_, _)
runRecords(c, lines) ==
    IF c.position >= Len(lines) \/ Trim(lines[c.position + 1]) = <<"@end">> THEN c
    ELSE LET line == Trim(lines[c.position + 1])
             pieces == Split(line, "->")
             ok == /\ Len(pieces) = 2 /\ Len(Trim(pieces[1])) = 1
                   /\ Trim(pieces[1])[1] \in IndexTokens /\ EndsWith(line, ";")
             bad == Diag(c.position + 1, <<"Invalid record line: \"">> \o line \o <<"\"">>)
         IN runRecords(
               IF StartsWith(line, "!#") THEN [c EXCEPT !.position = @ + 1]
               ELSE IF ok
               THEN [c EXCEPT !.value = Append(@, [index |-> Trim(pieces[1])[1],
                                                   fields |-> Trim(pieces[2])]),
                              !.position = @ + 1]
               ELSE [c EXCEPT !.errors = Append(@, bad), !.position = @ + 1],
               lines)

\* new SQONSchema({lines, position, allowedTypes}).parseSchema()
schemaParser(lines, position) == runSchema(Compiled(<<>>, <<>>, position, FALSE), lines)

\* new SQONValidation({lines, position, parsedSchema, validationKeywords}).parseValidation()
validationParser(lines, position, parsedSchema) ==
    LET c == parseValidationFrom(lines, position, parsedSchema)
    IN Compiled(c.validations, c.errors, c.position, c.thrown)

\* new SQONRecords(lines, position).parseRecords(500)
recordParser(lines, position) == runRecords(Compiled(<<>>, <<>>, position, FALSE), lines)

\* --------------------------------------------------- runtime validator

\* A FieldDiagnostic {valid: false, field, message}.
FieldDiag(field, msg) == [valid |-> FALSE, field |-> field, message |-> msg]

\* Object.entries of a schema object: its keys in the order of declaration.
FieldOrder == <<"age", "name", "tags", "user", "address", "items", "sku", "meta">>
Keys(obj) == SelectSeq(FieldOrder, LAMBDA k : k \in DOMAIN obj)

\* Array.prototype.join(', ')
RECURSIVE Join(_)
Join(tags) ==
    IF Len(tags) = 0 THEN <<>>
    ELSE IF Len(tags) = 1 THEN <<tags[1]>>
    ELSE <<tags[1], ", ">> \o Join(Tail(tags))

\* data[key]: out is "value" or, on null and undefined, "throw".
Member(data, key) ==
    IF data.k \in {"null", "undefined"} THEN [out |-> "throw", val |-> Val("undefined", <<>>)]
    ELSE IF data.k = "object" THEN [out |-> "value", val |-> GetEntry(data.v, key)]
    ELSE [out |-> "value", val |-> Val("undefined", <<>>)]

AllOfKind(value, kind) == \A i \in 1..Len(value.v) : value.v[i].k = kind

\* validateType of validateSchema: the tags are tried in their order and
\* the tags Array, Any[] and [] answer for the whole union.
RECURSIVE validateTypeFrom(_, _, _)
validateTypeFrom(expectedTypes, value, i) ==
    IF i > Len(expectedTypes) THEN FALSE
    ELSE LET type == expectedTypes[i]
         IN  IF type = "Any" THEN TRUE
             ELSE IF type = "String" /\ value.k = "string" THEN TRUE
             ELSE IF type = "Number" /\ value.k = "number" THEN TRUE
             ELSE IF type = "Boolean" /\ value.k = "boolean" THEN TRUE
             ELSE IF type = "Null" /\ value.k = "null" THEN TRUE
             ELSE IF type = "undefined" /\ value.k = "undefined" THEN TRUE
             ELSE IF type = "Date" /\ value.k = "date" THEN TRUE
             ELSE IF type = "Binary" /\ value.k = "binary" THEN TRUE
             ELSE IF type = "Uint8Array" /\ value.k = "uint8array" THEN TRUE
             ELSE IF type = "StringArray" /\ value.k = "array" /\ AllOfKind(value, "string") THEN TRUE
             ELSE IF type = "NumberArray" /\ value.k = "array" /\ AllOfKind(value, "number") THEN TRUE
             ELSE IF type = "ObjectArray" /\ value.k = "array" THEN TRUE
             ELSE IF type \in {"Array", "Any[]", "[]"} THEN value.k = "array"
             ELSE IF type = "Object" /\ value.k = "object" THEN TRUE
             ELSE validateTypeFrom(expectedTypes, value, i + 1)
validateType(expectedTypes, value) == validateTypeFrom(expectedTypes, value, 1)

\* A pass over this.errors: the list after it and whether it raised.
Pass(errs, thrown) == [errs |-> errs, thrown |-> thrown]

\* A validator whose answer does not look at the list.
alwaysValid(errs) == TRUE

\* this.errors.length === 0
isValid(errs) == Len(errs) = 0

DoesNotMatch(key, type) ==
    FieldDiag(<<key>>, <<"Field ", key, " does not match schema type: ">> \o Join(type))
InvalidItems(key) == FieldDiag(<<key>>, <<"Array field ", key, " contains invalid items">>)

\* schemaDef.items.type: undefined when items has no member `type`, and
\* iterating undefined raises a TypeError.
ItemsCheck(acc, key, schemaDef, value) ==
    LET bad == IF "type" \in DOMAIN schemaDef.items
               THEN Len(SelectSeq(value.v, LAMBDA item : ~validateType(schemaDef.items.type, item)))
               ELSE 0
    IN  IF ~(schemaDef.hasItems /\ value.k = "array") \/ acc.thrown THEN acc
        ELSE IF "type" \notin DOMAIN schemaDef.items
        THEN Pass(acc.errs, Len(value.v) > 0)
        ELSE Pass(acc.errs \o [i \in 1..bad |-> InvalidItems(key)], FALSE)

\* Validator.validateSchema on this.errors = errs: the loop over the fields
\* from the i-th on. The nested call answers valid from the length of the
\* one shared list.
RECURSIVE schemaFields(_, _, _, _)
RECURSIVE schemaProperties(_, _, _, _, _)
schemaProperties(acc, key, properties, value, j) ==
    IF j > Len(Keys(properties)) \/ acc.thrown THEN acc
    ELSE LET propKey == Keys(properties)[j]
             r == schemaFields(acc, (propKey :> properties[propKey]), value, 1)
         IN schemaProperties(
                IF r.thrown \/ isValid(r.errs) THEN r
                ELSE Pass(Append(r.errs, FieldDiag(<<key, ".", propKey>>,
                              <<"Property ", propKey, " validation failed">>)), FALSE),
                key, properties, value, j + 1)
schemaFields(acc, schema, data, i) ==
    IF i > Len(Keys(schema)) \/ acc.thrown THEN acc
    ELSE LET key == Keys(schema)[i]
             schemaDef == schema[key]
             m == Member(data, <<key>>)
         IN  IF m.out = "throw" THEN Pass(acc.errs, TRUE)
             ELSE IF ~validateType(schemaDef.type, m.val)
             THEN schemaFields(Pass(Append(acc.errs, DoesNotMatch(key, schemaDef.type)), FALSE),
                               schema, data, i + 1)
             ELSE schemaFields(
                    ItemsCheck(
                        IF schemaDef.hasProperties /\ Includes(schemaDef.type, "Object")
                        THEN schemaProperties(acc, key, schemaDef.properties, m.val, 1)
                        ELSE acc,
                        key, schemaDef, m.val),
                    schema, data, i + 1)
validateSchema(errs, schema, data) == schemaFields(Pass(errs, FALSE), schema, data, 1)

\* The table of validateFields (part_001 lines 117-151) and the rules its
\* switch has a case for (lines 162-329).
fieldKeywords ==
    {"custom", "default", "isNull", "min", "max", "minLength", "maxLength", "maxSize",
     "required", "isEqualTo", "isDate", "isPositive", "isNegative", "isUnique",
     "hasProperties", "notNull", "pattern", "isEmail", "isURL", "isAlpha", "isNumeric",
     "isAlphanumeric", "isInteger", "isFloat", "isBoolean", "isIP", "enum", "minDate",
     "maxDate", "matchesField", "trim", "lowercase", "uppercase"}
switchCases ==
    {"required", "isNull", "notNull", "min", "max", "minLength", "maxLength", "maxSize",
     "isDate", "isPositive", "isNegative", "isUnique", "hasProperties", "pattern", "isEmail",
     "isURL", "isAlpha", "isNumeric", "isBoolean", "enum", "minDate", "maxDate"}

\* The number a numeric literal stands for, in hundredths; NaN otherwise.
Num(n) == [nan |-> FALSE, n |-> n]
NaN == [nan |-> TRUE, n |-> 0]
NumOf(token) ==
    CASE token = "-1" -> Num(-100) [] token = "0" -> Num(0) [] token = "1" -> Num(100)
      [] token = "3.14" -> Num(314) [] token = "5" -> Num(500) [] token = "8" -> Num(800)
      [] token = "10" -> Num(1000) [] token = "20" -> Num(2000) [] token = "25" -> Num(2500)
      [] token = "70" -> Num(7000) [] token = "99" -> Num(9900) [] OTHER -> NaN
\* The characters of a string token.
CharLen(token) ==
    CASE token = "x" -> 1 [] token = "ab" -> 2 [] token = "abc" -> 3 [] token = "abcd" -> 4
      [] OTHER -> Len(<<token>>) + 4
\* ToNumber of a value, as the relational operators apply it.
JsNumber(val) ==
    CASE val.k = "number" -> NumOf(val.v[1])
      [] val.k = "boolean" -> IF val.v = <<"true">> THEN Num(100) ELSE Num(0)
      [] val.k = "null" -> Num(0)
      [] val.k = "string" -> IF val.v = <<>> THEN Num(0)
                             ELSE IF Len(val.v) = 1 THEN NumOf(val.v[1]) ELSE NaN
      [] val.k = "array" -> IF val.v = <<>> THEN Num(0) ELSE NaN
      [] OTHER -> NaN
Less(a, b) == ~a.nan /\ ~b.nan /\ a.n < b.n
LessEq(a, b) == ~a.nan /\ ~b.nan /\ a.n <= b.n
\* value.length, undefined (NaN in a comparison) where there is none;
\* reading it raises a TypeError on null and undefined.
LengthThrows(value) == value.k \in {"null", "undefined"}
LengthOf(value) ==
    CASE value.k = "string" -> IF value.v = <<>> THEN Num(0) ELSE Num(100 * CharLen(value.v[1]))
      [] value.k = "array" -> Num(100 * Len(value.v))
      [] OTHER -> NaN
\* `${ruleValue}`
Str(val) ==
    CASE val.k \in {"number", "string", "boolean"} -> val.v
      [] val.k = "null" -> <<"null">>
      [] val.k = "undefined" -> <<"undefined">>
      [] val.k = "array" -> <<"[array]">>
      [] OTHER -> <<"[object Object]">>

\* The strings the patterns of the switch accept.
AlphaTokens == {"x", "ab", "abc", "abcd"}
EmailTokens == {"a@b.c"}
URLTokens == {"http://a.b"}
MatchesRegex(rule, value) ==
    Len(value.v) = 1 /\
    CASE rule = "isAlpha" -> value.v[1] \in AlphaTokens
      [] rule = "isNumeric" -> value.v[1] \in IntTokens
      [] rule = "isEmail" -> value.v[1] \in EmailTokens
      [] rule = "isURL" -> value.v[1] \in URLTokens
      [] OTHER -> value.v[1] \in AlphaTokens

Outcome(out, msg) == [out |-> out, msg |-> msg]
Fails(cond, msg) == IF cond THEN Outcome("error", msg) ELSE Outcome("none", <<>>)

\* One case of the switch of validateFields: no diagnostic, a diagnostic
\* with this message, or a TypeError.
applyRule(field, ruleName, ruleValue, value) ==
    LET rule == IF Len(ruleName) = 1 THEN ruleName[1] ELSE "" IN
    CASE rule = "required" ->
            Fails(value.k \in {"undefined", "null"}, field \o <<" is required">>)
      [] rule = "isNull" -> Fails(value.k # "null", field \o <<" must be null">>)
      [] rule = "notNull" -> Fails(value.k = "null", field \o <<" must not be null">>)
      [] rule = "min" ->
            IF value.k = "number"
            THEN Fails(Less(JsNumber(value), JsNumber(ruleValue)),
                       field \o <<" should be at least ">> \o Str(ruleValue))
            ELSE IF value.k = "array"
            THEN Fails(\E i \in 1..Len(value.v) :
                          ~(value.v[i].k = "number"
                            /\ LessEq(JsNumber(ruleValue), JsNumber(value.v[i]))),
                       field \o <<" must have all numbers at least ">> \o Str(ruleValue))
            ELSE Outcome("none", <<>>)
      [] rule = "max" ->
            IF value.k = "number"
            THEN Fails(Less(JsNumber(ruleValue), JsNumber(value)),
                       field \o <<" should not exceed ">> \o Str(ruleValue))
            ELSE IF value.k = "array"
            THEN Fails(\E i \in 1..Len(value.v) :
                          ~(value.v[i].k = "number"
                            /\ LessEq(JsNumber(value.v[i]), JsNumber(ruleValue))),
                       field \o <<" must have all numbers no greater than ">> \o Str(ruleValue))
            ELSE Outcome("none", <<>>)
      [] rule = "minLength" ->
            IF LengthThrows(value) THEN Outcome("throw", <<>>)
            ELSE Fails(Less(LengthOf(value), JsNumber(ruleValue)),
                       field \o <<" should have a minimum length of ">> \o Str(ruleValue))
      [] rule = "maxLength" ->
            IF LengthThrows(value) THEN Outcome("throw", <<>>)
            ELSE Fails(Less(JsNumber(ruleValue), LengthOf(value)),
                       field \o <<" should have a maximum length of ">> \o Str(ruleValue))
      [] rule = "maxSize" ->
            IF LengthThrows(value) THEN Outcome("throw", <<>>)
            ELSE Fails(Less(JsNumber(ruleValue), LengthOf(value)),
                       field \o <<" exceeds the maximum size of ">> \o Str(ruleValue))
      [] rule = "isDate" -> Fails(value.k # "date", field \o <<" must be a valid date">>)
      [] rule = "isPositive" ->
            Fails(LessEq(JsNumber(value), Num(0)), field \o <<" must be positive">>)
      [] rule = "isNegative" ->
            Fails(LessEq(Num(0), JsNumber(value)), field \o <<" must be negative">>)
      [] rule = "isUnique" ->
            Fails(value.k = "array"
                  /\ \E i, j \in 1..Len(value.v) :
                        i < j /\ value.v[i] = value.v[j] /\ value.v[i].k \notin {"object", "array"},
                  field \o <<" contains duplicate values">>)
      [] rule = "hasProperties" ->
            IF value.k \notin {"object", "array", "date"} THEN Outcome("none", <<>>)
            ELSE IF ruleValue.k # "array" THEN Outcome("throw", <<>>)
            ELSE Fails(\E i \in 1..Len(ruleValue.v) :
                          ~(value.k = "object"
                            /\ \E e \in 1..Len(value.v) : value.v[e].name = ruleValue.v[i]),
                       field \o <<" is missing required properties">>)
      [] rule \in {"pattern", "isEmail", "isURL", "isAlpha", "isNumeric"} ->
            Fails(value.k = "string" /\ ~MatchesRegex(rule, value),
                  field \o (CASE rule = "pattern" -> <<" does not match the required pattern">>
                              [] rule = "isEmail" -> <<" must be a valid email address">>
                              [] rule = "isURL" -> <<" must be a valid URL">>
                              [] rule = "isAlpha" -> <<" must contain only alphabetic characters">>
                              [] OTHER -> <<" must contain only numeric characters">>))
      [] rule = "isBoolean" -> Fails(value.k # "boolean", field \o <<" must be a boolean">>)
      [] rule = "enum" ->
            IF ruleValue.k \notin {"array", "string"} THEN Outcome("throw", <<>>)
            ELSE Fails(~(IF ruleValue.k = "array"
                         THEN value.k = "string"
                              /\ \E i \in 1..Len(ruleValue.v) : ruleValue.v[i] = value.v
                         ELSE Str(value) = ruleValue.v \/ Str(value) = <<>>),
                       field \o <<" must be one of ">> \o Str(ruleValue))
      [] rule \in {"minDate", "maxDate"} -> Outcome("none", <<>>)
      [] OTHER -> Outcome("error", <<"Unknown validation rule: ">> \o ruleName)

\* { [label]: value }
Single(label, value) == Val("object", <<[name |-> label, value |-> value]>>)
\* const { rules, ...nestedRules } = input
NestedRules(input) ==
    IF input.k = "object" THEN SelectSeq(input.v, LAMBDA e : e.name # <<"rules">>) ELSE <<>>
RulesOf(input) ==
    IF input.k = "object" THEN GetEntry(input.v, <<"rules">>) ELSE Val("undefined", <<>>)
\* value?.[nestedKey]
OptionalMember(value, nestedKey) ==
    IF value.k = "object" THEN GetEntry(value.v, nestedKey) ELSE Val("undefined", <<>>)
ItemIndex == <<"0", "1", "2">>
ItemLabel(field, i) == field \o <<"[", ItemIndex[i], "]">>
PushOutcome(acc, field, o) ==
    CASE o.out = "error" -> Pass(Append(acc.errs, FieldDiag(field, o.msg)), FALSE)
      [] o.out = "throw" -> Pass(acc.errs, TRUE)
      [] OTHER -> acc

\* Validator.validateFields on this.errors = errs (part_001 lines 116-348):
\* every rule of every field in order, then the nested rules under the label
\* of their path; a TypeError ends the pass where it is raised.
RECURSIVE rulesFrom(_, _, _, _, _)
rulesFrom(acc, field, rules, value, j) ==
    IF acc.thrown \/ j > Len(rules) THEN acc
    ELSE rulesFrom(PushOutcome(acc, field,
                               applyRule(field, rules[j].name, rules[j].value, value)),
                   field, rules, value, j + 1)

RECURSIVE fieldsFrom(_, _, _, _)
RECURSIVE nestedFrom(_, _, _, _, _)
RECURSIVE itemsFrom(_, _, _, _, _)
itemsFrom(acc, field, nestedInput, items, k) ==
    IF acc.thrown \/ k > Len(items) THEN acc
    ELSE itemsFrom(fieldsFrom(acc, <<[name |-> ItemLabel(field, k), value |-> nestedInput]>>,
                              Single(ItemLabel(field, k), items[k]), 1),
                   field, nestedInput, items, k + 1)

nestedValueFrom(acc, field, nestedKey, nestedInput, nestedValue) ==
    IF nestedValue.k = "array"
    THEN itemsFrom(acc, field, nestedInput, nestedValue.v, 1)
    ELSE fieldsFrom(acc, <<[name |-> field \o <<".">> \o nestedKey, value |-> nestedInput]>>,
                    Single(field \o <<".">> \o nestedKey, nestedValue), 1)

nestedFrom(acc, field, nested, value, j) ==
    IF acc.thrown \/ j > Len(nested) THEN acc
    ELSE nestedFrom(nestedValueFrom(acc, field, nested[j].name, nested[j].value,
                                    OptionalMember(value, nested[j].name)),
                    field, nested, value, j + 1)

fieldRules(acc, field, rules, value) ==
    IF rules.k = "object" THEN rulesFrom(acc, field, rules.v, value, 1) ELSE acc

fieldBody(acc, field, input, m) ==
    IF input.k \in {"null", "undefined"} \/ m.out = "throw" THEN Pass(acc.errs, TRUE)
    ELSE nestedFrom(fieldRules(acc, field, RulesOf(input), m.val),
                    field, NestedRules(input), m.val, 1)

fieldsFrom(acc, validateData, data, i) ==
    IF acc.thrown \/ i > Len(validateData) THEN acc
    ELSE fieldsFrom(fieldBody(acc, validateData[i].name, validateData[i].value,
                              Member(data, validateData[i].name)),
                    validateData, data, i + 1)

validateFields(errs, validateData, data) == fieldsFrom(Pass(errs, FALSE), validateData, data, 1)

\* The arguments of validate: schema and validateData may be left out.
Params(hasSchema, schema, hasRules, validateData, data) ==
    [hasSchema |-> hasSchema, schema |-> schema, hasRules |-> hasRules,
     validateData |-> validateData, data |-> data]
NoParams == Params(FALSE, <<>>, FALSE, <<>>, Val("undefined", <<>>))

\* What validate returns: {valid} or {valid, errors}.
Returned(valid, hasErrors, errs) == [valid |-> valid, hasErrors |-> hasErrors, errors |-> errs]
NotReturned == Returned(FALSE, FALSE, <<>>)

\* One call of validate: where it stands ("idle", suspended at
\* "awaitSchema" or "awaitFields", "returned", "rejected"), its arguments,
\* the outcome of the pass it awaits, the number of diagnostics its passes
\* pushed (history) and its result; whether another call was in flight
\* during it (history); and the errors of the Validator that
\* SQON.validateData creates for it.
Call(pc, params, thrown, passValid, produced, result) ==
    [pc |-> pc, params |-> params, thrown |-> thrown, passValid |-> passValid,
     produced |-> produced, result |-> result, overlapped |-> FALSE, own |-> <<>>]
MaxCalls == 2
CallIds == 1..MaxCalls
NoCalls == [c \in CallIds |-> Call("idle", NoParams, FALSE, FALSE, 0, NotReturned)]

\* this.errors and one call, between two steps of that call.
Frame(errs, call) == [errs |-> errs, call |-> call]

\* The call suspends on the promise of a pass that ran from errsBefore to r.
awaitPass(call, pc, errsBefore, r) ==
    Frame(r.errs,
          [call EXCEPT !.pc = pc, !.thrown = r.thrown, !.passValid = isValid(r.errs),
                       !.produced = @ + Len(r.errs) - Len(errsBefore)])
return(errs, call, result) == Frame(errs, [call EXCEPT !.pc = "returned", !.result = result])
reject(errs, call) == Frame(errs, [call EXCEPT !.pc = "rejected"])

\* validate from `if (validateData)` on (part_001 lines 25-30).
fromValidateData(errs, call) ==
    IF call.params.hasRules
    THEN awaitPass(call, "awaitFields", errs,
                   validateFields(errs, call.params.validateData, call.params.data))
    ELSE return(errs, call, Returned(isValid(errs), FALSE, <<>>))

\* A validate that leaves this.errors as it finds it.
keepErrors(errs) == errs

\* this.errors = []
resetErrors(errs) == <<>>

\* validate from its entry to its first await (part_001 lines 18-21, 25-26).
fromEntry(errs, call) ==
    IF call.params.hasSchema
    THEN awaitPass(call, "awaitSchema", errs,
                   validateSchema(errs, call.params.schema, call.params.data))
    ELSE fromValidateData(errs, call)
begin(errs, params) ==
    fromEntry(resetErrors(errs), Call("idle", params, FALSE, FALSE, 0, NotReturned))

\* validate resumed after `await this.validateSchema` (lines 21-26).
resumeSchema(errs, call) ==
    IF call.thrown THEN reject(errs, call)
    ELSE IF ~call.passValid THEN return(errs, call, Returned(FALSE, TRUE, errs))
    ELSE fromValidateData(errs, call)

\* validate resumed after `await this.validateFields` (lines 26-30).
resumeFields(errs, call) ==
    IF call.thrown THEN reject(errs, call)
    ELSE IF ~call.passValid THEN return(errs, call, Returned(FALSE, TRUE, errs))
    ELSE return(errs, call, Returned(isValid(errs), FALSE, <<>>))

\* --------------------------------------------------------- orchestrator

MAX_ERRORS == 50

\* The compiler's Diagnostics taken over whole, without the slice.
UncappedErrors(errs) == errs

\* results.errors.slice(0, this.MAX_ERRORS)
CappedErrors(errs) == Take(errs, MAX_ERRORS)

\* checkSectionOrder without the test that @schema was opened before.
checkSectionOrderUnordered(marker, sectionOrder, position) ==
    [errs |-> IF Includes(sectionOrder, marker)
              THEN <<Diag(position + 1, <<"'", marker, "' is already opened but not closed.">>)>>
              ELSE <<>>,
     order |-> Append(sectionOrder, marker)]

\* SQON.checkSectionOrder: the Diagnostics it pushes and the stack after.
checkSectionOrder(marker, sectionOrder, position) ==
    LET at(msg) == Diag(position + 1, msg)
        needsSchema == marker \in {"@validations", "@records"}
                       /\ ~Includes(sectionOrder, "@schema")
        needsValidations == marker = "@records"
                            /\ Includes(sectionOrder, "@validations")
                            /\ ~Includes(sectionOrder, "@validations")
        reopened == Includes(sectionOrder, marker)
    IN [errs |-> (IF needsSchema THEN <<at(<<"'", marker, "' must come after '@schema'.">>)>> ELSE <<>>)
              \o (IF needsValidations
                  THEN <<at(<<"'@records' must come after '@validations'.">>)>> ELSE <<>>)
              \o (IF reopened
                  THEN <<at(<<"'", marker, "' is already opened but not closed.">>)>> ELSE <<>>),
        order |-> Append(sectionOrder, marker)]

VARIABLES
    lines,        \* SQON.lines: the trimmed, non-empty lines of the document
    section,      \* SQON.section: "none" (full document) or the single section asked for
    position,     \* SQON.position, counted from 0
    parsedSchema, \* SQON.parsedSchema
    validations,  \* SQON.validations
    records,      \* SQON.records
    errors,       \* SQON.errors
    sectionOrder, \* SQON.sectionOrder, the stack of opened sections
    fileRules,    \* SQON.fileRules.Strict
    status,       \* of parseLines: "running", "returned" or "thrown"
    result,       \* what parseLines returned
    compiled,     \* history: the section compiles parseLines has run, in order
    open,         \* history: the sections of the document that are open
    compiler,     \* a SQONValidation instance driven on its own
    vSchema,      \* its parsedSchema
    vLines,       \* its lines
    vStatus,      \* of its parseValidation: "running", "returned" or "thrown"
    thisErrors,   \* Validator.errors of one Validator instance
    calls,        \* the calls of validate on that instance, by call number
    parses        \* history: what the earlier calls of SQON.parse returned, and how
                  \* each next call was made

orchVars == <<lines, section, position, parsedSchema, validations, records, errors,
              sectionOrder, fileRules, status, result, compiled, open, parses>>
compVars == <<compiler, vSchema, vLines, vStatus>>
runVars == <<thisErrors, calls>>
vars == <<lines, section, position, parsedSchema, validations, records, errors,
          sectionOrder, fileRules, status, result, compiled, open,
          compiler, vSchema, vLines, vStatus, thisErrors, calls, parses>>

\* The object parseLines returns.
ParsedResult(fr, schema, vals, recs, errs) ==
    [fileRules |-> fr, schema |-> schema, validations |-> vals, records |-> recs, errors |-> errs]
NoResult == ParsedResult(FALSE, <<>>, <<>>, <<>>, <<>>)

Line == lines[position + 1]
Running == status = "running" /\ position < Len(lines)

\* String.prototype.toUpperCase on the values a *STRICT= directive is given.
ToUpperCase(s) ==
    [i \in 1..Len(s) |->
        CASE s[i] = "true" -> "TRUE" [] s[i] = "false" -> "FALSE"
          [] s[i] = "maybe" -> "MAYBE" [] OTHER -> s[i]]

\* line.startsWith('*STRICT=')
IsStrictLine(line) == Len(line) >= 2 /\ line[1] = "*STRICT" /\ line[2] = "="

\* A parseLines that lets a *STRICT=TRUE directive pass in every mode.
StrictModeAllowed(mode) == FALSE

\* if (this.section) throw new Error("Strict-Mode is enabled, ..."), reached
\* when the directive's value is TRUE (parseLines, lines 224-226).
StrictModeRefused(mode) == mode # "none"

\* parseLines, lines 222-237: the *STRICT= directive.
StrictDirective ==
    /\ Running
    /\ IsStrictLine(Line)
    /\ LET strictValue == ToUpperCase(Trim(Split(Line, "=")[2]))
       IN  IF strictValue = <<"TRUE">>
           THEN IF StrictModeRefused(section)
                THEN /\ status' = "thrown"
                     /\ UNCHANGED <<fileRules, errors, position>>
                ELSE /\ fileRules' = TRUE
                     /\ position' = position + 1
                     /\ UNCHANGED <<status, errors>>
           ELSE IF strictValue = <<"FALSE">>
           THEN /\ fileRules' = FALSE
                /\ position' = position + 1
                /\ UNCHANGED <<status, errors>>
           ELSE /\ errors' = Append(errors, Diag(position + 1,
                        <<"Invalid *STRICT value: ">> \o strictValue
                        \o <<". Expected TRUE or FALSE.">>))
                /\ position' = position + 1
                /\ UNCHANGED <<status, fileRules>>
    /\ UNCHANGED <<lines, section, parsedSchema, validations, records, sectionOrder,
                   result, compiled, open>>
    /\ UNCHANGED <<compVars, runVars, parses>>

\* The history of one section compile, and the document's open sections
\* after it: the section is closed when its compiler stopped on an @end.
CompileEntry(marker, r) ==
    [section |-> marker, start |-> position + 1, errors |-> r.errors, thrown |-> r.thrown]
OpenAfter(marker, r) ==
    IF ~r.thrown /\ r.position < Len(lines) THEN open ELSE Append(open, marker)

\* A loop body that starts over from the first line.
RewindLine ==
    /\ position' = 0
    /\ UNCHANGED <<lines, section, parsedSchema, validations, records, errors, sectionOrder,
                   fileRules, status, result, compiled, open>>

\* A marker line in a mode that neither compiles nor checks it: only the
\* position++ at the end of the loop body runs.
SkipLine ==
    /\ position' = position + 1
    /\ UNCHANGED <<lines, section, parsedSchema, validations, records, errors, sectionOrder,
                   fileRules, status, result, compiled, open>>

\* The @schema branch, the compiler's result r and the order check o given.
storeSchema(r, o) ==
    IF section = "schema"
    THEN /\ parsedSchema' = r.value
         /\ errors' = errors \o CappedErrors(r.errors)
         /\ position' = r.position
         /\ status' = "returned"
         /\ result' = ParsedResult(fileRules, parsedSchema', <<>>, <<>>, errors')
         /\ compiled' = Append(compiled, CompileEntry("@schema", r))
         /\ UNCHANGED <<lines, section, validations, records, sectionOrder, fileRules, open>>
    ELSE IF section = "none"
    THEN /\ sectionOrder' = o.order
         /\ parsedSchema' = r.value
         /\ errors' = errors \o o.errs \o CappedErrors(r.errors)
         /\ position' = r.position + 1
         /\ compiled' = Append(compiled, CompileEntry("@schema", r))
         /\ open' = OpenAfter("@schema", r)
         /\ UNCHANGED <<lines, section, validations, records, fileRules, status, result>>
    ELSE SkipLine

\* parseLines, lines 238-249 with parseSchema (352-361).
OpenSchema ==
    /\ Running
    /\ Line = <<"@schema">>
    /\ storeSchema(schemaParser(lines, position + 1),
                   checkSectionOrder("@schema", sectionOrder, position))
    /\ UNCHANGED <<compVars, runVars, parses>>

\* The @validations branch, r and o given.
storeValidations(r, o) ==
    IF section = "schema"
    THEN /\ compiled' = Append(compiled, CompileEntry("@validations", r))
         /\ IF r.thrown
            THEN /\ status' = "thrown"
                 /\ position' = position + 1
                 /\ UNCHANGED <<validations, errors, result>>
            ELSE /\ validations' = r.value
                 /\ errors' = errors \o CappedErrors(r.errors)
                 /\ position' = r.position
                 /\ status' = "returned"
                 /\ result' = ParsedResult(fileRules, <<>>, validations', <<>>, errors')
         /\ UNCHANGED <<lines, section, parsedSchema, records, sectionOrder, fileRules, open>>
    ELSE IF section = "none"
    THEN /\ sectionOrder' = o.order
         /\ compiled' = Append(compiled, CompileEntry("@validations", r))
         /\ open' = OpenAfter("@validations", r)
         /\ IF r.thrown
            THEN /\ status' = "thrown"
                 /\ errors' = errors \o o.errs
                 /\ position' = position + 1
                 /\ UNCHANGED validations
            ELSE /\ validations' = r.value
                 /\ errors' = errors \o o.errs \o CappedErrors(r.errors)
                 /\ position' = r.position + 1
                 /\ UNCHANGED status
         /\ UNCHANGED <<lines, section, parsedSchema, records, fileRules, result>>
    ELSE SkipLine

\* parseLines, lines 250-261 with parseValidation (368-382). A compiler that
\* raises aborts parseLines before anything of its result is stored.
OpenValidations ==
    /\ Running
    /\ Line = <<"@validations">>
    /\ storeValidations(validationParser(lines, position + 1, parsedSchema),
                        checkSectionOrder("@validations", sectionOrder, position))
    /\ UNCHANGED <<compVars, runVars, parses>>

\* The @records branch, r and o given.
storeRecords(r, o) ==
    IF section = "records"
    THEN /\ records' = r.value
         /\ errors' = errors \o CappedErrors(r.errors)
         /\ position' = r.position
         /\ status' = "returned"
         /\ result' = ParsedResult(fileRules, <<>>, <<>>, records', errors')
         /\ compiled' = Append(compiled, CompileEntry("@records", r))
         /\ UNCHANGED <<lines, section, parsedSchema, validations, sectionOrder, fileRules, open>>
    ELSE IF section = "none"
    THEN /\ sectionOrder' = o.order
         /\ records' = r.value
         /\ errors' = errors \o o.errs \o CappedErrors(r.errors)
         /\ position' = r.position + 1
         /\ compiled' = Append(compiled, CompileEntry("@records", r))
         /\ open' = OpenAfter("@records", r)
         /\ UNCHANGED <<lines, section, parsedSchema, validations, fileRules, status, result>>
    ELSE SkipLine

\* parseLines, lines 262-273 with parseRecords (389-397).
OpenRecords ==
    /\ Running
    /\ Line = <<"@records">>
    /\ storeRecords(recordParser(lines, position + 1),
                    checkSectionOrder("@records", sectionOrder, position))
    /\ UNCHANGED <<compVars, runVars, parses>>

KnownSections == {"@schema", "@validations", "@records"}

\* parseLines, lines 274-286: an @end line the loop itself reaches.
EndLine ==
    /\ Running
    /\ Line = <<"@end">>
    /\ IF section = "none"
       THEN /\ IF sectionOrder = <<>>
               THEN /\ errors' = Append(errors, Diag(position + 1,
                                    <<"Unexpected '@end' without an open section.">>))
                    /\ UNCHANGED sectionOrder
               ELSE LET lastSection == sectionOrder[Len(sectionOrder)]
                    IN /\ sectionOrder' = SubSeq(sectionOrder, 1, Len(sectionOrder) - 1)
                       /\ errors' = IF lastSection \notin KnownSections
                                    THEN Append(errors, Diag(position + 1,
                                            <<"Unexpected '@end' for section: ", lastSection, ".">>))
                                    ELSE errors
            /\ open' = SubSeq(open, 1, Len(open) - 1)
       ELSE UNCHANGED <<errors, sectionOrder, open>>
    /\ position' = position + 1
    /\ UNCHANGED <<lines, section, parsedSchema, validations, records, fileRules, status,
                   result, compiled>>
    /\ UNCHANGED <<compVars, runVars, parses>>

\* parseLines, lines 287-292: any other line.
OtherLine ==
    /\ Running
    /\ ~IsStrictLine(Line)
    /\ Line \notin {<<"@schema">>, <<"@validations">>, <<"@records">>, <<"@end">>}
    /\ IF section \notin {"none", "records", "schema"}
       THEN /\ status' = "thrown"
            /\ UNCHANGED <<errors, position>>
       ELSE /\ errors' = IF section = "none"
                         THEN Append(errors, Diag(position + 1,
                                 <<"Unknown section or command: \"">> \o Line \o <<"\"">>))
                         ELSE errors
            /\ position' = position + 1
            /\ UNCHANGED status
    /\ UNCHANGED <<lines, section, parsedSchema, validations, records, sectionOrder, fileRules,
                   result, compiled, open>>
    /\ UNCHANGED <<compVars, runVars, parses>>

\* !this.parsedSchema: an object, also the empty one of the constructor
\* (line 86), is truthy; the schema compiler always hands back an object.
SchemaMissing(schema) == FALSE

\* parseLines, lines 295-309: the end of input.
EndOfInput ==
    /\ status = "running"
    /\ position >= Len(lines)
    /\ errors' = IF section = "none"
                 THEN errors
                      \o (IF SchemaMissing(parsedSchema)
                          THEN <<Diag(0, <<"Missing required section: '@schema'">>)>> ELSE <<>>)
                      \o (IF Len(records) = 0
                          THEN <<Diag(0, <<"Missing required section: '@records'">>)>> ELSE <<>>)
                 ELSE errors
    /\ status' = "returned"
    /\ result' = ParsedResult(fileRules, parsedSchema, validations, records, errors')
    /\ UNCHANGED <<lines, section, position, parsedSchema, validations, records, sectionOrder,
                   fileRules, compiled, open>>
    /\ UNCHANGED <<compVars, runVars, parses>>

\* The lines of the document the instance was made for: a parse on a
\* filePath instance pushes them to this.lines once more on every call
\* (parse, lines 176-189).
MaxParses == 2
ParseKinds == {"fresh", "content", "file"}
Copies == IF parses # <<>> /\ parses[1].kind = "file" THEN Len(parses) + 1 ELSE 1
OriginalLines == SubSeq(lines, 1, Len(lines) \div Copies)

\* SQON.parse is called once more after it returned (parse, lines 158-211):
\* on a new instance made for the same document ("fresh"), or on the same
\* instance, made with fileContent ("content": this.lines is assigned
\* again) or with filePath ("file": the lines are pushed again). Nothing
\* else of the instance is reset.
ParseAgain(kind) ==
    /\ status = "returned"
    /\ Len(parses) < MaxParses - 1
    /\ \A i \in 1..Len(parses) : parses[i].kind = kind
    /\ parses' = Append(parses, [kind |-> kind, result |-> result])
    /\ status' = "running"
    /\ lines' = IF kind = "file" THEN lines \o OriginalLines ELSE lines
    /\ IF kind = "fresh"
       THEN /\ position' = 0
            /\ parsedSchema' = <<>>
            /\ validations' = <<>>
            /\ records' = <<>>
            /\ errors' = <<>>
            /\ sectionOrder' = <<>>
            /\ fileRules' = FALSE
            /\ compiled' = <<>>
            /\ open' = <<>>
       ELSE UNCHANGED <<position, parsedSchema, validations, records, errors, sectionOrder,
                        fileRules, compiled, open>>
    /\ UNCHANGED <<section, result>>
    /\ UNCHANGED <<compVars, runVars>>

\* ------------------------------------------- the compiler on its own

\* One iteration of the loop of parseValidation (part_000 lines 17-34).
ValidationLine ==
    /\ vStatus = "running"
    /\ ~validationStops(compiler, vLines)
    /\ compiler' = validationLine(compiler, vSchema, vLines[compiler.position + 1])
    /\ vStatus' = IF compiler'.thrown THEN "thrown" ELSE "running"
    /\ UNCHANGED <<vSchema, vLines>>
    /\ UNCHANGED <<orchVars, runVars>>

\* parseValidation leaves its loop and returns (part_000 lines 20-22, 35).
ValidationReturn ==
    /\ vStatus = "running"
    /\ validationStops(compiler, vLines)
    /\ vStatus' = "returned"
    /\ UNCHANGED <<compiler, vSchema, vLines>>
    /\ UNCHANGED <<orchVars, runVars>>

\* ------------------------------------------- the validator on its own

InFlight(c) == calls[c].pc \in {"awaitSchema", "awaitFields"}
Finished(c) == calls[c].pc \in {"returned", "rejected"}
StepTo(c, frame) ==
    /\ thisErrors' = frame.errs
    /\ calls' = [calls EXCEPT ![c] = frame.call]

\* validate(params) is called while no other call is in flight and runs to
\* its first await.
Start(c, params) ==
    /\ calls[c].pc = "idle"
    /\ \A d \in CallIds : IF d < c THEN Finished(d) ELSE calls[d].pc = "idle"
    /\ StepTo(c, begin(thisErrors, params))
    /\ UNCHANGED <<orchVars, compVars>>

ResumeSchema(c) ==
    /\ calls[c].pc = "awaitSchema"
    /\ StepTo(c, resumeSchema(thisErrors, calls[c]))
    /\ UNCHANGED <<orchVars, compVars>>

ResumeFields(c) ==
    /\ calls[c].pc = "awaitFields"
    /\ StepTo(c, resumeFields(thisErrors, calls[c]))
    /\ UNCHANGED <<orchVars, compVars>>

\* The calls, those in flight marked as overlapped by a call that starts.
Overlapping ==
    [d \in CallIds |-> IF InFlight(d) THEN [calls[d] EXCEPT !.overlapped = TRUE] ELSE calls[d]]
StartedAmong(call) == [call EXCEPT !.overlapped = \E d \in CallIds : InFlight(d)]

\* validate(params) is called on the same instance while a call on it is
\* suspended at an await.
StartOverlapping(c, params) ==
    /\ calls[c].pc = "idle"
    /\ \A d \in CallIds : IF d < c THEN calls[d].pc # "idle" ELSE calls[d].pc = "idle"
    /\ \E d \in CallIds : InFlight(d)
    /\ thisErrors' = begin(thisErrors, params).errs
    /\ calls' = [Overlapping EXCEPT
                    ![c] = [begin(thisErrors, params).call EXCEPT !.overlapped = TRUE]]
    /\ UNCHANGED <<orchVars, compVars>>

\* A validateData whose calls all use the Validator of the first call.
sharedInstance(c) == 1

\* const validate = new validator_1.Validator() (parser.js line 457): the
\* Validator call c works on, named by the call that created it.
instanceOf(c) == c

\* Call c of SQON.validateData takes a step of validate on its Validator.
DataStepTo(c, frame) ==
    /\ calls' = [[calls EXCEPT ![c] = frame.call] EXCEPT ![instanceOf(c)].own = frame.errs]
    /\ UNCHANGED thisErrors

\* SQON.validateData (parser.js lines 456-465) is called, at any moment,
\* and runs validate to its first await.
DataStart(c, params) ==
    /\ calls[c].pc = "idle"
    /\ \A d \in CallIds : IF d < c THEN calls[d].pc # "idle" ELSE calls[d].pc = "idle"
    /\ calls' = [[Overlapping EXCEPT
                        ![c] = StartedAmong(begin(calls[instanceOf(c)].own, params).call)]
                    EXCEPT ![instanceOf(c)].own = begin(calls[instanceOf(c)].own, params).errs]
    /\ UNCHANGED thisErrors
    /\ UNCHANGED <<orchVars, compVars>>

DataResumeSchema(c) ==
    /\ calls[c].pc = "awaitSchema"
    /\ DataStepTo(c, resumeSchema(calls[instanceOf(c)].own, calls[c]))
    /\ UNCHANGED <<orchVars, compVars>>

\* validate resumes after its rule pass and returns, and validateData
\* returns that result.
DataResumeFields(c) ==
    /\ calls[c].pc = "awaitFields"
    /\ DataStepTo(c, resumeFields(calls[instanceOf(c)].own, calls[c]))
    /\ UNCHANGED <<orchVars, compVars>>

\* ------------------------------------------------------------ documents

MaxDocLen == 3
MaxJunkLines == 60
MaxVLines == 2

SchemaMarker == <<"@schema">>
ValidationsMarker == <<"@validations">>
RecordsMarker == <<"@records">>
EndMarker == <<"@end">>
StrictTrue == <<"*STRICT", "=", "TRUE">>
StrictFalse == <<"*STRICT", "=", "false">>
StrictOther == <<"*STRICT", "=", "maybe">>
SchemaField == <<"age", SP, "->", SP, "Number">>
ValidationRule == <<"age", SP, "->", SP, "min", "=", "8">>
ClauseWithoutValue == <<"age", SP, "->", SP, "min">>
RecordLine == <<"#0", SP, "->", SP, "age", "(", "25", ")", ";">>
Junk == <<"garbage">>

Seqs(S, n) == UNION {[1..k -> S] : k \in 0..n}
Repeat(x, n) == [i \in 1..n |-> x]

\* Every document of at most MaxDocLen lines over these lines.
ShortDocs ==
    Seqs({SchemaMarker, ValidationsMarker, RecordsMarker, EndMarker, StrictTrue,
          SchemaField, ValidationRule, RecordLine, Junk}, MaxDocLen)

\* The three sections in order, each closed by its own @end.
SectionDoc(pre, sc, vc, rc, post) ==
    pre \o <<SchemaMarker>> \o sc \o <<EndMarker, ValidationsMarker>> \o vc
        \o <<EndMarker, RecordsMarker>> \o rc \o <<EndMarker>> \o post
Prefixes == {<<>>, <<StrictTrue>>, <<StrictFalse>>, <<StrictOther>>}
SchemaContents == {<<>>, <<SchemaField>>}
\* `age -> <rule>=8` and `age -> <rule>="x"` for the rules default and isEqualTo
ValueRuleNames == {"default", "isEqualTo"}
NumberValueRule(name) == <<"age", SP, "->", SP, name, "=", "8">>
StringValueRule(name) == <<"age", SP, "->", SP, name, "=", QUOTE, "x", QUOTE>>
ValueRuleContents ==
    {<<NumberValueRule(name)>> : name \in ValueRuleNames}
    \cup {<<StringValueRule(name)>> : name \in ValueRuleNames}
ValidationContents ==
    {<<>>, <<ValidationRule>>, <<Junk>>, <<ValidationRule, ClauseWithoutValue>>}
    \cup ValueRuleContents
RecordContents == {<<>>, <<RecordLine>>}
WellFormedDocs ==
    {SectionDoc(pre, sc, vc, rc, <<>>) :
        pre \in Prefixes, sc \in SchemaContents,
        vc \in ValidationContents \ {<<ValidationRule, ClauseWithoutValue>>},
        rc \in RecordContents}
SectionedDocs ==
    {SectionDoc(pre, sc, vc, rc, post) :
        pre \in Prefixes, sc \in SchemaContents, vc \in ValidationContents,
        rc \in RecordContents, post \in {<<>>, <<EndMarker>>, <<StrictTrue>>}}

\* One section holding n lines that each give its compiler one Diagnostic.
JunkSection(marker, n) ==
    (IF marker = ValidationsMarker THEN <<SchemaMarker, SchemaField, EndMarker>> ELSE <<>>)
    \o <<marker>> \o Repeat(Junk, n) \o <<EndMarker>>
JunkDocs ==
    {JunkSection(marker, n) :
        marker \in {SchemaMarker, ValidationsMarker, RecordsMarker},
        n \in (MAX_ERRORS - 2)..MaxJunkLines}

Docs == ShortDocs \cup SectionedDocs \cup JunkDocs
Modes == {"none", "schema", "validations", "records"}

\* The Schema Trees and the lines handed to the compiler on its own.
FlatSchema == [age |-> Leaf(<<"Number">>), name |-> Leaf(<<"String">>)]
NestedSchema ==
    [age |-> Leaf(<<"Number">>),
     user |-> Node(<<"Object">>, TRUE,
                   [age |-> Leaf(<<"Number">>), address |-> Leaf(<<"Object">>),
                    rules |-> Leaf(<<"String">>)], FALSE, <<>>),
     items |-> Node(<<"ObjectArray">>, FALSE, <<>>, TRUE, [sku |-> Leaf(<<"String">>)]),
     meta |-> Leaf(<<"Object">>)]
Schemas == {FlatSchema, NestedSchema}

VLine(key, rulesStr) == key \o <<SP, "->", SP>> \o rulesStr
KnownRules == {<<"min", "=", "8">>, <<"required", "=", "true">>, <<"isAlpha", "=", "true">>,
               <<"required", "=", "true", ",", SP, "max", "=", "70">>}
UnknownRules == {<<"foo", "=", "1">>, <<"default", "=", "TRUE">>, <<"constructor", "=", "1">>}
\* `age -> enum=[5,10,20]`, and the validation line of the example
\* document, whose clauses are separated by semicolons.
EnumLine == VLine(<<"age">>, <<"enum", "=", "[", "5", ",", "10", ",", "20", "]">>)
ScenarioLine ==
    VLine(<<"age">>, <<"required", "=", "true", ";", SP, "min", "=", "8", ";", SP, "max", "=", "70">>)
VLinePool ==
    {VLine(<<"age">>, r) : r \in KnownRules \cup UnknownRules}
    \cup {VLine(k, <<"required", "=", "true">>) :
            k \in {<<"nope">>, <<"user", ".", "nope">>, <<"age", ".", "x">>, <<"meta", ".", "x">>,
                   <<"user", ".", "age">>, <<"user", ".", "address">>, <<"items", ".", "sku">>,
                   <<"items">>, <<"user">>, <<"user", ".", "rules">>}}
    \cup {VLine(<<"nope">>, <<"min", "=", "8">>), VLine(<<"user", ".", "age">>, <<"foo", "=", "1">>),
          VLine(<<"items", ".", "sku">>, <<"bar", "=", QUOTE, "x", QUOTE>>),
          VLine(<<"age">>, <<"foo", "=", "1", ",", "min", "=", "8">>),
          VLine(<<"age">>, <<"min">>), VLine(<<"age">>, <<"required", "=", "TRUE">>),
          VLine(<<"name">>, <<"enum", "=", "[", "1", "]">>), EnumLine, ScenarioLine,
          <<"!#", SP, "note">>, Junk}
\* The boolean and null keywords in both spellings, after `default` and
\* after another rule name.
UpperKeywords == {"TRUE", "FALSE", "NULL"}
LowerKeywords == {"true", "false", "null"}
SpelledNames == {<<"default">>, <<"required">>}
SpellingLine(name, kw) == VLine(<<"age">>, name \o <<"=", kw>>)
SpellingDocs ==
    {pre \o <<SpellingLine(name, kw)>> :
        pre \in {<<>>, <<<<"!#", SP, "note">>>>}, name \in SpelledNames,
        kw \in UpperKeywords \cup LowerKeywords}
VDocs ==
    {body \o tail : body \in Seqs(VLinePool, MaxVLines), tail \in {<<>>, <<EndMarker>>}}
    \cup SpellingDocs

\* The arguments handed to validate: the Schema Tree and the RuleSet the
\* compilers give for a document, and a record of it.
AgeSchema == [age |-> Leaf(<<"Number">>)]
ArrayOrString == [tags |-> Leaf(<<"Array", "String">>)]
StringOrArray == [tags |-> Leaf(<<"String", "Array">>)]
RuleSetOf(schema, line) == validationParser(<<line, EndMarker>>, 0, schema).value
CommaLine ==
    VLine(<<"age">>, <<"required", "=", "true", ",", SP, "min", "=", "8", ",", SP, "max", "=", "70">>)
LengthLine == VLine(<<"name">>, <<"required", "=", "true", ",", SP, "minLength", "=", "1">>)
ScenarioRules == RuleSetOf(AgeSchema, ScenarioLine)
CommaRules == RuleSetOf(AgeSchema, CommaLine)
LengthRules == RuleSetOf(FlatSchema, LengthLine)
Record(field, value) == Val("object", <<[name |-> <<field>>, value |-> value]>>)
Age5 == Record("age", Val("number", <<"5">>))
Age25 == Record("age", Val("number", <<"25">>))
Age99 == Record("age", Val("number", <<"99">>))
TagsString == Record("tags", Val("string", <<"abc">>))
TagsArray == Record("tags", Val("array", <<Val("string", <<"x">>)>>))
Undefined == Val("undefined", <<>>)
\* A record with a nested object, under a schema that declares its property.
UserSchema ==
    [age |-> Leaf(<<"Number">>),
     user |-> Node(<<"Object">>, TRUE, [age |-> Leaf(<<"Number">>)], FALSE, <<>>)]
User(age) ==
    Val("object", <<[name |-> <<"age">>, value |-> age], [name |-> <<"user">>, value |-> Age5]>>)
\* Rules at nested paths, and records with a list under such a path.
UserAgeLine == VLine(<<"user", ".", "age">>, <<"required", "=", "true", ",", SP, "min", "=", "8">>)
ItemsSkuLine == VLine(<<"items", ".", "sku">>, <<"required", "=", "true">>)
UserAgeRules == RuleSetOf(UserSchema, UserAgeLine)
ItemsSkuRules == RuleSetOf(NestedSchema, ItemsSkuLine)
UserAges ==
    Record("user", Record("age", Val("array", <<Val("number", <<"5">>), Val("number", <<"25">>)>>)))
ItemList ==
    Record("items", Val("array", <<Record("sku", Val("string", <<"abc">>)),
                                   Record("sku", Val("string", <<"x">>))>>))
NestedObjectCall == Params(FALSE, <<>>, TRUE, UserAgeRules, User(Val("number", <<"25">>)))
NestedListCall == Params(FALSE, <<>>, TRUE, UserAgeRules, UserAges)
ItemsCall == Params(FALSE, <<>>, TRUE, ItemsSkuRules, ItemList)
NestedCalls == {NestedObjectCall, NestedListCall, ItemsCall}
\* The rules of the orchestrator's table that the switch of the validator
\* has no case for, on a number and on a string that satisfy them.
NumberRulesLine ==
    VLine(<<"age">>, <<"isInteger", "=", "true", ",", SP, "isFloat", "=", "true">>)
StringRulesLine ==
    VLine(<<"name">>, <<"isAlphanumeric", "=", "true", ",", SP, "isIP", "=", "true", ",", SP,
                        "trim", "=", "true", ",", SP, "lowercase", "=", "true", ",", SP,
                        "uppercase", "=", "true">>)
VocabularyCalls ==
    {Params(FALSE, <<>>, TRUE, RuleSetOf(FlatSchema, NumberRulesLine), Age5),
     Params(FALSE, <<>>, TRUE, RuleSetOf(FlatSchema, StringRulesLine),
            Record("name", Val("string", <<"abc">>)))}
CallParams ==
    NestedCalls \cup VocabularyCalls \cup
    {Params(TRUE, UserSchema, FALSE, <<>>, User(age)) :
        age \in {Val("number", <<"25">>), Val("string", <<"abc">>)}}
    \cup
    {Params(TRUE, schema, FALSE, <<>>, data) :
        schema \in {ArrayOrString, StringOrArray}, data \in {TagsString, TagsArray}}
    \cup {Params(TRUE, AgeSchema, FALSE, <<>>, data) : data \in {Age5, Undefined}}
    \cup {Params(FALSE, <<>>, TRUE, rules, data) :
            rules \in {ScenarioRules, CommaRules}, data \in {Age5, Age25, Age99}}
    \cup {Params(FALSE, <<>>, TRUE, LengthRules, Age5), Params(FALSE, <<>>, FALSE, <<>>, Age5)}
    \cup {Params(TRUE, AgeSchema, TRUE, rules, data) :
            rules \in {ScenarioRules, CommaRules}, data \in {Age5, Age25, Undefined, TagsString}}

\* The arguments of the calls that overlap: flat schemas and rules, whose
\* passes run to their end without suspending.
OverlapParams ==
    {Params(TRUE, AgeSchema, FALSE, <<>>, data) : data \in {Age5, TagsString}}
    \cup {Params(FALSE, <<>>, TRUE, CommaRules, data) : data \in {Age5, Age25}}
    \cup {Params(TRUE, AgeSchema, TRUE, CommaRules, data) : data \in {Age5, Age25}}

\* The documents parsed twice: the well-formed ones, and two with a line
\* after the last section.
ReparseDocs ==
    WellFormedDocs
    \cup {SectionDoc(<<>>, <<SchemaField>>, <<ValidationRule>>, <<RecordLine>>, post) :
            post \in {<<EndMarker>>, <<Junk>>}}

\* -------------------------------------------------------- specification

Idle == Compiler(<<>>, <<>>, 0, FALSE)

\* The SQON instance after its constructor and the reading of the lines.
Init ==
    /\ lines \in Docs
    /\ section \in Modes
    /\ position = 0
    /\ parsedSchema = <<>>
    /\ validations = <<>>
    /\ records = <<>>
    /\ errors = <<>>
    /\ sectionOrder = <<>>
    /\ fileRules = FALSE
    /\ status = "running"
    /\ result = NoResult
    /\ compiled = <<>>
    /\ open = <<>>
    /\ compiler = Idle
    /\ vSchema = <<>>
    /\ vLines = <<>>
    /\ vStatus = "returned"
    /\ thisErrors = <<>>
    /\ calls = NoCalls
    /\ parses = <<>>

Next ==
    \/ StrictDirective
    \/ OpenSchema
    \/ OpenValidations
    \/ OpenRecords
    \/ EndLine
    \/ OtherLine
    \/ EndOfInput

Spec == Init /\ [][Next]_vars

\* parseLines is a synchronous loop: while its condition position <
\* lines.length holds the body runs again, and when it fails the code after
\* the loop runs; nothing else is scheduled in between.
LoopRuns == []<>(~Running) \/ []<><<Next>>_vars

SpecL == Spec /\ LoopRuns /\ WF_vars(EndOfInput)

\* A SQON instance for a whole document, parsed and parsed again.
InitP ==
    /\ lines \in ReparseDocs
    /\ section = "none"
    /\ position = 0
    /\ parsedSchema = <<>>
    /\ validations = <<>>
    /\ records = <<>>
    /\ errors = <<>>
    /\ sectionOrder = <<>>
    /\ fileRules = FALSE
    /\ status = "running"
    /\ result = NoResult
    /\ compiled = <<>>
    /\ open = <<>>
    /\ compiler = Idle
    /\ vSchema = <<>>
    /\ vLines = <<>>
    /\ vStatus = "returned"
    /\ thisErrors = <<>>
    /\ calls = NoCalls
    /\ parses = <<>>

NextP ==
    \/ Next
    \/ \E kind \in ParseKinds : ParseAgain(kind)

SpecP == InitP /\ [][NextP]_vars

\* The SQONValidation instance after its constructor.
InitV ==
    /\ lines = <<>>
    /\ section = "none"
    /\ position = 0
    /\ parsedSchema = <<>>
    /\ validations = <<>>
    /\ records = <<>>
    /\ errors = <<>>
    /\ sectionOrder = <<>>
    /\ fileRules = FALSE
    /\ status = "returned"
    /\ result = NoResult
    /\ compiled = <<>>
    /\ open = <<>>
    /\ compiler = Idle
    /\ vSchema \in Schemas
    /\ vLines \in VDocs
    /\ vStatus = "running"
    /\ thisErrors = <<>>
    /\ calls = NoCalls
    /\ parses = <<>>

NextV ==
    \/ ValidationLine
    \/ ValidationReturn

SpecV == InitV /\ [][NextV]_vars

\* The Validator instance after its constructor.
InitR ==
    /\ lines = <<>>
    /\ section = "none"
    /\ position = 0
    /\ parsedSchema = <<>>
    /\ validations = <<>>
    /\ records = <<>>
    /\ errors = <<>>
    /\ sectionOrder = <<>>
    /\ fileRules = FALSE
    /\ status = "returned"
    /\ result = NoResult
    /\ compiled = <<>>
    /\ open = <<>>
    /\ compiler = Idle
    /\ vSchema = <<>>
    /\ vLines = <<>>
    /\ vStatus = "returned"
    /\ thisErrors = <<>>
    /\ calls = NoCalls
    /\ parses = <<>>

NextR ==
    \/ \E c \in CallIds, params \in CallParams : Start(c, params)
    \/ \E c \in CallIds : ResumeSchema(c)
    \/ \E c \in CallIds : ResumeFields(c)

SpecR == InitR /\ [][NextR]_vars

\* One Validator instance whose calls may overlap.
NextO ==
    \/ \E c \in CallIds, params \in OverlapParams : Start(c, params)
    \/ \E c \in CallIds, params \in OverlapParams : StartOverlapping(c, params)
    \/ \E c \in CallIds : ResumeSchema(c)
    \/ \E c \in CallIds : ResumeFields(c)

SpecO == InitR /\ [][NextO]_vars

\* Calls of SQON.validateData, in any interleaving.
NextD ==
    \/ \E c \in CallIds, params \in OverlapParams : DataStart(c, params)
    \/ \E c \in CallIds : DataResumeSchema(c)
    \/ \E c \in CallIds : DataResumeFields(c)

SpecD == InitR /\ [][NextD]_vars

\* --------------------------------------------------------------- claims

FullDocument == section = "none"
Last(s) == s[Len(s)]
MustComeAfterSchema(marker, n) == Diag(n, <<"'", marker, "' must come after '@schema'.">>)
AlreadyOpened(marker, n) == Diag(n, <<"'", marker, "' is already opened but not closed.">>)
UnexpectedEnd(n) == Diag(n, <<"Unexpected '@end' without an open section.">>)
\* parseLines has opened an @schema section
SchemaOpened == \E i \in 1..Len(compiled) : compiled[i].section = "@schema"
\* this step of parseLines handles the marker line `marker` of a full document
AtMarker(marker) == Running /\ FullDocument /\ Line = <<marker>>
IsOrderDiagnostic(e) == \E m \in KnownSections : e.message = MustComeAfterSchema(m, 0).message

\* C1: in a full document, a step that reaches @validations or @records
\* while no @schema was opened before pushes "'<marker>' must come after
\* '@schema'." at the marker's line and runs the section's compiler from the
\* next line; and no step on a document of the three sections in order, each
\* closed by its @end, leaves such a Diagnostic in errors.
C1_OrderEnforced ==
    [][/\ \A marker \in {"@validations", "@records"} :
            AtMarker(marker) /\ ~SchemaOpened =>
                /\ Includes(errors', MustComeAfterSchema(marker, position + 1))
                /\ Len(compiled') = Len(compiled) + 1
                /\ Last(compiled').section = marker
                /\ Last(compiled').start = position + 1
       /\ FullDocument /\ lines \in WellFormedDocs =>
            \A i \in 1..Len(errors') : ~IsOrderDiagnostic(errors'[i])
      ]_vars

\* C1 witness: @validations was compiled with no @schema opened before it,
\* and its order Diagnostic is in the returned errors.
C1_Witness ==
    /\ FullDocument /\ status = "returned"
    /\ \E i \in 1..Len(compiled) :
        /\ compiled[i].section = "@validations"
        /\ \A j \in 1..(i - 1) : compiled[j].section # "@schema"
        /\ Includes(result.errors, MustComeAfterSchema("@validations", compiled[i].start))

\* C2: in a full document each @end pops the section opened last: after
\* `@schema ... @end` the stack holds no "@schema", and after the three
\* sections in order, each closed by its @end, the stack is empty.
C2_EndPops ==
    FullDocument /\ lines \in WellFormedDocs =>
        /\ Len(compiled) = 1 => ~Includes(sectionOrder, "@schema")
        /\ status = "returned" => sectionOrder = <<>>

\* C3: in a full document, an @end line reached by parseLines while no
\* section of the document is open gets the Diagnostic "Unexpected '@end'
\* without an open section." at its line.
C3_StrayEndReported ==
    [][AtMarker("@end") /\ open = <<>> =>
            Includes(errors', UnexpectedEnd(position + 1))]_vars

\* C4: in a full document a section marker gets "'<marker>' is already
\* opened but not closed." exactly when that section is open, that is, was
\* opened and not closed by an @end since.
C4_ReopenReported ==
    [][\A marker \in KnownSections :
            AtMarker(marker) =>
                (Includes(errors', AlreadyOpened(marker, position + 1)) <=> Includes(open, marker))
      ]_vars

\* The documents of the three sections in order without a directive, and
\* the marker of the section a single-section mode asks for.
ThreeSectionDocs == {d \in WellFormedDocs : ~IsStrictLine(d[1])}
MarkerOf(mode) ==
    CASE mode = "schema" -> "@schema" [] mode = "validations" -> "@validations"
      [] OTHER -> "@records"

\* C5: in each single-section mode S, on a document of the three sections
\* in order, parseLines does not throw, compiles section S and no other,
\* and returns a result whose two other fields are empty.
C5_SingleSection ==
    ~FullDocument /\ lines \in ThreeSectionDocs =>
        /\ status # "thrown"
        /\ status = "returned" =>
            /\ Len(compiled) = 1 /\ compiled[1].section = MarkerOf(section)
            /\ section # "schema" => result.schema = <<>>
            /\ section # "validations" => result.validations = <<>>
            /\ section # "records" => result.records = <<>>

\* the value of the *STRICT= directive parseLines stands on
StrictValue == ToUpperCase(Trim(Split(Line, "=")[2]))
AtDirective == Running /\ IsStrictLine(Line)

\* C6 as stated: in a single-section mode, parseLines does not get past a
\* *STRICT= directive whose value is TRUE or FALSE: the step on it throws.
C6_AnyDirectiveThrows ==
    [][~FullDocument /\ AtDirective /\ StrictValue \in {<<"TRUE">>, <<"FALSE">>} =>
            status' = "thrown"]_vars

\* C6, amended: in a single-section mode, the step on a *STRICT= directive
\* whose value is TRUE (in any letter case) throws, adds nothing to errors
\* and returns no result; on a directive whose value is FALSE parseLines
\* goes on to the next line.
C6_StrictTrueThrows ==
    [][~FullDocument /\ AtDirective =>
            /\ StrictValue = <<"TRUE">> =>
                status' = "thrown" /\ errors' = errors /\ result' = NoResult
            /\ StrictValue = <<"FALSE">> =>
                status' = "running" /\ position' = position + 1 /\ errors' = errors
      ]_vars

\* C6 witness: a single-section parse has thrown on a *STRICT=TRUE line.
C6_Witness ==
    /\ ~FullDocument /\ status = "thrown"
    /\ position < Len(lines) /\ IsStrictLine(Line) /\ StrictValue = <<"TRUE">>
    /\ errors = <<>> /\ result = NoResult

MissingSection(marker) == Diag(0, <<"Missing required section: '", marker, "'">>)

\* C7: a full-document parse that returns has the Diagnostic "Missing
\* required section: '@schema'" when the document had no @schema section,
\* and "Missing required section: '@records'" when no record was compiled.
C7_MissingSections ==
    FullDocument /\ status = "returned" =>
        /\ ~SchemaOpened => Includes(result.errors, MissingSection("@schema"))
        /\ records = <<>> => Includes(result.errors, MissingSection("@records"))

IsInvalidValidationLine(e) == e.message = <<"Invalid validation line: \"">> \o Junk \o <<"\"">>
InvalidValidationLines(errs) ==
    Cardinality({i \in 1..Len(errs) : IsInvalidValidationLine(errs[i])})
\* errs is old, then at most 2 Diagnostics of the order check, then the
\* first n of produced, and nothing else
TakesFirst(errs, old, produced, n) ==
    \E k \in 0..2 :
        /\ Len(errs) = Len(old) + k + n
        /\ SubSeq(errs, 1, Len(old)) = old
        /\ \A i \in 1..n : errs[Len(old) + k + i] = produced[i]

\* C8: a step that compiles a section appends to errors the first 50
\* Diagnostics its compiler produced, in order, all of them when there are
\* fewer, and no other of them; a validations section of 50 or more lines
\* with one Diagnostic each leaves exactly 50 of them in the result.
C8_CapPerSection ==
    [][/\ compiled' # compiled /\ status' # "thrown" =>
            TakesFirst(errors', errors, Last(compiled').errors,
                       Min(50, Len(Last(compiled').errors)))
       /\ \A n \in 50..MaxJunkLines :
            FullDocument /\ lines = JunkSection(ValidationsMarker, n) /\ status' = "returned" =>
                InvalidValidationLines(result'.errors) = 50
      ]_vars

\* C8 witness: a validations section of 60 lines, one Diagnostic each, was
\* compiled and 50 of the 60 are in the returned errors.
C8_Witness ==
    /\ FullDocument /\ status = "returned"
    /\ lines = JunkSection(ValidationsMarker, 60)
    /\ Len(compiled) = 2 /\ Len(compiled[2].errors) = 60
    /\ InvalidValidationLines(result.errors) = 50

\* The line the compiler stands on, its path and the text of its rules.
VAtLine == vStatus = "running" /\ ~validationStops(compiler, vLines)
VCurrent == Trim(vLines[compiler.position + 1])
VIsRuleLine == ~StartsWith(VCurrent, "!#") /\ Includes(VCurrent, "->")
VKey == Trim(Split(VCurrent, "->")[1])
VRulesStr == Trim(Split(VCurrent, "->")[2])
\* pr is one rule with a well-formed value and a name outside the table
OneUndefinedRule(pr) ==
    /\ ~pr.thrown /\ pr.errs = <<>> /\ Len(pr.rules) = 1
    /\ Len(pr.rules[1].name) = 1 /\ pr.rules[1].name[1] \notin DOMAIN validationKeywords
ReportedHere(c, n) == \E i \in 1..Len(c.errors) : c.errors[i].line = n

\* C9: compiling a line `path -> name=value` whose path resolves, whose
\* value is well formed and whose rule name is not in the applicability
\* table adds exactly one Diagnostic, "Validation rule '<name>' is not
\* defined." at that line, and leaves the RuleSet as it was.
C9_UndefinedRule ==
    [][VAtLine /\ VIsRuleLine /\ getSchemaType(vSchema, VKey) # <<>>
       /\ OneUndefinedRule(parseRules(VRulesStr, compiler.position + 1)) =>
            /\ ~compiler'.thrown
            /\ Len(compiler'.errors) = Len(compiler.errors) + 1
            /\ Last(compiler'.errors).line = compiler.position + 1
            /\ Includes(Last(compiler'.errors).message, "' is not defined.")
            /\ compiler'.validations = compiler.validations
      ]_vars

\* C10: compiling a line whose path does not resolve in the Schema Tree
\* adds a Diagnostic at that line and leaves the RuleSet as it was,
\* whatever the rules of the line are.
C10_UnresolvedPath ==
    [][VAtLine /\ VIsRuleLine /\ getSchemaType(vSchema, VKey) = <<>> =>
            /\ ReportedHere(compiler', compiler.position + 1)
            /\ compiler'.validations = compiler.validations
      ]_vars

\* The rules every node of a RuleSet stores, as pairs <<dot-path, rule>>.
RECURSIVE StoredRules(_, _)
StoredRules(entries, prefix) ==
    UNION {LET e == entries[i]
               path == IF prefix = <<>> THEN e.name ELSE prefix \o <<".">> \o e.name
           IN  IF e.name = <<"rules">>
               THEN IF e.value.k = "object"
                    THEN {<<prefix, e.value.v[j]>> : j \in 1..Len(e.value.v)}
                    ELSE {}
               ELSE IF e.value.k = "object" THEN StoredRules(e.value.v, path) ELSE {}
           : i \in 1..Len(entries)}
\* the rule applies, directly or through Any, to one of the type tags
AppliesTo(ruleName, tags) ==
    /\ Len(ruleName) = 1 /\ ruleName[1] \in DOMAIN validationKeywords
    /\ \E j \in 1..Len(tags) :
        \/ Includes(validationKeywords[ruleName[1]], tags[j])
        \/ Includes(validationKeywords[ruleName[1]], "Any")

\* C11: every rule a node of the compiled RuleSet stores is a key of the
\* applicability table and applies, directly or through Any, to at least
\* one type tag its node's dot-path resolves to in the Schema Tree.
C11_StoredRulesApplicable ==
    \A pr \in StoredRules(compiler.validations, <<>>) :
        AppliesTo(pr[2].name, getSchemaType(vSchema, pr[1]))

\* The node of a RuleSet at a dot-path (undefined when there is none) and
\* the rules it stores.
RECURSIVE NodeAt(_, _, _)
NodeAt(entries, parts, i) ==
    LET cur == GetEntry(entries, parts[i])
    IN  IF i = Len(parts) \/ cur.k # "object" THEN cur
        ELSE NodeAt(cur.v, parts, i + 1)
RulesAt(entries, key) ==
    LET node == NodeAt(entries, Split(key, "."), 1)
        rules == IF node.k = "object" THEN GetEntry(node.v, <<"rules">>) ELSE node
    IN IF rules.k = "object" THEN rules.v ELSE <<>>
HasNodeAt(entries, key) == NodeAt(entries, Split(key, "."), 1).k = "object"
RuleValue(rules, name) == rules[RuleValueOf(rules, name)].value
\* after holds the union of before and added, added winning
IsUnion(after, before, added) ==
    /\ RuleNames(after) = RuleNames(before) \cup RuleNames(added)
    /\ \A n \in RuleNames(added) : RuleValue(after, n) = RuleValue(added, n)
    /\ \A n \in RuleNames(before) \ RuleNames(added) : RuleValue(after, n) = RuleValue(before, n)

\* C12: a validation line is merged at its dot-path exactly when compiling
\* it left no Diagnostic with its own line number: then the node at the
\* path holds the union of the rules it held and the line's rules, the
\* line's value winning; otherwise the RuleSet is as it was.
C12_MergedIffUnreported ==
    [][VAtLine /\ VIsRuleLine =>
        IF ReportedHere(compiler', compiler.position + 1)
        THEN compiler'.validations = compiler.validations
        ELSE /\ HasNodeAt(compiler'.validations, VKey)
             /\ IsUnion(RulesAt(compiler'.validations, VKey),
                        RulesAt(compiler.validations, VKey),
                        parseRules(VRulesStr, compiler.position + 1).rules)
      ]_vars

\* C13: the right side is split at top-level commas only and each clause at
\* its first '=': compiling `age -> enum=[5,10,20]` neither raises nor adds
\* a Diagnostic, and stores at `age` the one rule enum, whose value is the
\* sequence of the strings "5", "10", "20".
C13_TopLevelCommas ==
    [][VAtLine /\ VCurrent = EnumLine =>
        /\ ~compiler'.thrown
        /\ compiler'.errors = compiler.errors
        /\ IsUnion(RulesAt(compiler'.validations, <<"age">>),
                   RulesAt(compiler.validations, <<"age">>),
                   <<[name |-> <<"enum">>,
                      value |-> Val("array", << <<"5">>, <<"10">>, <<"20">> >>)]>>)
      ]_vars

\* pr, the outcome of parseRules on a line, shows a malformed clause: one
\* without '=' (the call raised) or one whose value has no literal form
Malformed(pr) == pr.thrown \/ pr.errs # <<>>

\* C14: compiling a line with a malformed clause does not raise: it leaves
\* a Diagnostic with the line's number, adds nothing to the RuleSet, and
\* the compiler moves on to the next line.
C14_MalformedClauseRecovered ==
    [][VAtLine /\ VIsRuleLine /\ Malformed(parseRules(VRulesStr, compiler.position + 1)) =>
        /\ ~compiler'.thrown
        /\ ReportedHere(compiler', compiler.position + 1)
        /\ compiler'.validations = compiler.validations
        /\ compiler'.position = compiler.position + 1
      ]_vars

InvalidFormat(n, ruleName, rule) ==
    Diag(n, <<"Invalid format for value of '">> \o ruleName \o <<"' in '">> \o rule \o <<"'">>)
KeywordValue(kw) ==
    CASE kw \in {"TRUE", "true"} -> Val("boolean", <<"true">>)
      [] kw \in {"FALSE", "false"} -> Val("boolean", <<"false">>)
      [] OTHER -> Val("null", <<>>)

\* C15: after `default` the boolean and null literals are TRUE, FALSE and
\* NULL, after any other rule name true, false and null. A clause in the
\* spelling of its rule name gets no "Invalid format" Diagnostic (and the
\* rule `required` is stored with the literal's value); a clause in the
\* other spelling gets exactly the Diagnostic "Invalid format for value of
\* '<rule>' in '<clause>'" at its line and the RuleSet stays as it was.
C15_KeywordSpelling ==
    [][\A name \in SpelledNames, kw \in UpperKeywords \cup LowerKeywords :
        VAtLine /\ vLines[compiler.position + 1] = SpellingLine(name, kw) =>
            IF (name = <<"default">>) <=> (kw \in UpperKeywords)
            THEN /\ ~Includes(compiler'.errors,
                        InvalidFormat(compiler.position + 1, name, name \o <<"=", kw>>))
                 /\ name = <<"required">> =>
                        /\ compiler'.errors = compiler.errors
                        /\ RuleValue(RulesAt(compiler'.validations, <<"age">>), name)
                                = KeywordValue(kw)
            ELSE /\ compiler'.errors = Append(compiler.errors,
                        InvalidFormat(compiler.position + 1, name, name \o <<"=", kw>>))
                 /\ compiler'.validations = compiler.validations
      ]_vars

\* C15 witness: `age -> required=TRUE` was compiled and got its Diagnostic.
C15_Witness ==
    /\ vLines = <<SpellingLine(<<"required">>, "TRUE")>>
    /\ compiler.position = 1
    /\ compiler.errors = <<InvalidFormat(1, <<"required">>, <<"required", "=", "TRUE">>)>>
    /\ compiler.validations = <<>>

\* C16: the orchestrator, compiling `age -> default=8` or `age ->
\* isEqualTo=8` under the schema `age -> Number`, reports nothing at that
\* line and stores the rule with the number 8; compiling the same rule with
\* the string "x" leaves a Diagnostic at the line and stores nothing.
C16_ValueKindChecked ==
    \A name \in ValueRuleNames, rc \in RecordContents :
        FullDocument /\ status = "returned" =>
            /\ lines = SectionDoc(<<>>, <<SchemaField>>, <<NumberValueRule(name)>>, rc, <<>>) =>
                /\ \A i \in 1..Len(result.errors) : result.errors[i].line # 5
                /\ RulesAt(result.validations, <<"age">>)
                        = <<[name |-> <<name>>, value |-> Val("number", <<"8">>)]>>
            /\ lines = SectionDoc(<<>>, <<SchemaField>>, <<StringValueRule(name)>>, rc, <<>>) =>
                /\ \E i \in 1..Len(result.errors) : result.errors[i].line = 5
                /\ result.validations = <<>>

\* The runtime kind of the value matches the type tag.
KindMatches(type, value) ==
    CASE type = "Any" -> TRUE
      [] type = "String" -> value.k = "string"
      [] type = "Number" -> value.k = "number"
      [] type = "Boolean" -> value.k = "boolean"
      [] type = "Null" -> value.k = "null"
      [] type = "undefined" -> value.k = "undefined"
      [] type = "Date" -> value.k = "date"
      [] type = "Binary" -> value.k = "binary"
      [] type = "Uint8Array" -> value.k = "uint8array"
      [] type = "StringArray" -> value.k = "array" /\ AllOfKind(value, "string")
      [] type = "NumberArray" -> value.k = "array" /\ AllOfKind(value, "number")
      [] type \in {"ObjectArray", "Array", "Any[]", "[]"} -> value.k = "array"
      [] type = "Object" -> value.k = "object"
      [] OTHER -> FALSE
MatchesSomeTag(types, value) == \E i \in 1..Len(types) : KindMatches(types[i], value)
\* Call c has run its shape pass over a record and awaits its promise.
ShapePassDone(c) ==
    calls[c].pc = "awaitSchema" /\ ~calls[c].thrown /\ calls[c].params.data.k = "object"

\* C20: the shape pass of a call produces no diagnostic exactly when, for
\* every declared field, the kind of the value matches at least one of the
\* declared type tags, whatever the order of the tags: `Array | String` and
\* `String | Array` both accept a string.
C20_UnionOrderIrrelevant ==
    \A c \in CallIds :
        ShapePassDone(c) =>
            (calls[c].produced = 0
                <=> \A key \in DOMAIN calls[c].params.schema :
                        MatchesSomeTag(calls[c].params.schema[key].type,
                                       GetEntry(calls[c].params.data.v, <<key>>)))

RECURSIVE finish(_)
finish(frame) ==
    IF frame.call.pc = "awaitSchema" THEN finish(resumeSchema(frame.errs, frame.call))
    ELSE IF frame.call.pc = "awaitFields" THEN finish(resumeFields(frame.errs, frame.call))
    ELSE frame
RunAlone(params) == finish(begin(<<>>, params)).call

\* C19: when the calls of validate on one instance do not overlap, every
\* call ends as it would on a fresh instance: it returns the same valid and
\* the same errors (or is rejected alike), whatever the earlier calls left.
C19_CallsIndependent ==
    \A c \in CallIds :
        Finished(c) =>
            /\ calls[c].pc = RunAlone(calls[c].params).pc
            /\ calls[c].result = RunAlone(calls[c].params).result

\* C19 witness: the first call returned diagnostics and the second call,
\* made after it, returned valid with none.
C19_Witness ==
    /\ calls[1].pc = "returned"
    /\ Len(calls[1].result.errors) > 0
    /\ calls[2].pc = "returned"
    /\ calls[2].params.hasRules
    /\ calls[2].result.valid

\* Call c validated this record against the Schema Tree of `age -> Number`
\* and this RuleSet, and returned.
Validated(c, rules, data) ==
    /\ calls[c].pc = "returned"
    /\ calls[c].params = Params(TRUE, AgeSchema, TRUE, rules, data)
AtLeast8 == FieldDiag(<<"age">>, <<"age", " should be at least ", "8">>)

\* C17: with the schema `age -> Number` and the RuleSet compiled from the
\* line `age -> required=true; min=8; max=70`, validating {age: 5} returns
\* valid = false with the one diagnostic "age should be at least 8", and
\* validating {age: 25} returns valid = true.
C17_ScenarioEndToEnd ==
    \A c \in CallIds :
        /\ Validated(c, ScenarioRules, Age5) =>
                calls[c].result = Returned(FALSE, TRUE, <<AtLeast8>>)
        /\ Validated(c, ScenarioRules, Age25) => calls[c].result.valid

\* C21: a rule pass over a record never raises: every call of validate
\* that is given rules and a record returns a result, also when a field
\* with the rules required and minLength is absent from the record.
C21_RulePassGoesOn ==
    \A c \in CallIds :
        calls[c].params.hasRules /\ calls[c].params.data.k = "object" =>
            /\ ~(calls[c].pc = "awaitFields" /\ calls[c].thrown)
            /\ calls[c].pc # "rejected"

\* The diagnostics of `sub` all occur in `errs`.
AllIn(sub, errs) == \A i \in 1..Len(sub) : \E j \in 1..Len(errs) : errs[j] = sub[i]
\* What the rule pass alone reports for the arguments of call c.
RuleViolations(c) == validateFields(<<>>, calls[c].params.validateData, calls[c].params.data).errs

\* C22: a call of validate that is given a schema and rules returns, in
\* errors, the violations its rule pass finds for the record, whether or
\* not the shape pass produced diagnostics.
C22_PassesIndependent ==
    \A c \in CallIds :
        /\ calls[c].pc = "returned"
        /\ calls[c].params.hasSchema /\ calls[c].params.hasRules
        /\ calls[c].params.data.k = "object"
        => AllIn(RuleViolations(c), calls[c].result.errors)

\* "<label> should be at least 8" for the field at this label.
AtLeast8At(label) == FieldDiag(label, label \o <<" should be at least ", "8">>)

\* C23: the rules compiled for `user.age` are checked against data.user.age
\* and reported under the label user.age; when that value is a list they
\* are checked once per element under a positional label; and the rules
\* compiled for `items.sku`, items being an ObjectArray, are checked against
\* the sku of every element, so a list whose elements all have a sku gives
\* no diagnostic.
C23_NestedRulesFollowData ==
    \A c \in CallIds :
        calls[c].pc = "returned" =>
            /\ calls[c].params = NestedObjectCall =>
                    calls[c].result.errors = <<AtLeast8At(<<"user", ".", "age">>)>>
            /\ calls[c].params = NestedListCall =>
                    calls[c].result.errors = <<AtLeast8At(<<"user", "[", "0", "]">>)>>
            /\ calls[c].params = ItemsCall => calls[c].result.valid

\* C27: after the shape pass of a call under the schema with the nested
\* property user.age, a diagnostic for user.age is in the list only if the
\* value of data.user.age does not match its declared types, whatever the
\* sibling field age did.
C27_OnlyFailingNamed ==
    \A c \in CallIds :
        ShapePassDone(c) /\ calls[c].params.schema = UserSchema =>
            \A i \in 1..Len(thisErrors) :
                thisErrors[i].field = <<"user", ".", "age">> =>
                    ~MatchesSomeTag(UserSchema.user.properties.age.type,
                                    OptionalMember(GetEntry(calls[c].params.data.v, <<"user">>),
                                                   <<"age">>))

\* The names of the rules in the nodes of a RuleSet.
RECURSIVE RuleNamesIn(_)
RuleNamesIn(entries) ==
    UNION {IF entries[i].name = <<"rules">>
           THEN {entries[i].value.v[j].name : j \in 1..Len(entries[i].value.v)}
           ELSE RuleNamesIn(entries[i].value.v) : i \in 1..Len(entries)}
UnknownRule(name) == <<"Unknown validation rule: ">> \o name

\* C28: when every rule of the RuleSet handed to validate is a key of the
\* orchestrator's table, no diagnostic of the call says "Unknown validation
\* rule", and a record that satisfies the rules isInteger, isFloat,
\* isAlphanumeric, isIP, trim, lowercase and uppercase validates as valid.
C28_VocabulariesAgree ==
    \A c \in CallIds :
        /\ calls[c].pc = "returned"
        /\ calls[c].params.hasRules
        /\ \A name \in RuleNamesIn(calls[c].params.validateData) :
                Len(name) = 1 /\ name[1] \in DOMAIN validationKeywords
        => /\ \A i \in 1..Len(calls[c].result.errors) :
                \A name \in RuleNamesIn(calls[c].params.validateData) :
                    calls[c].result.errors[i].message # UnknownRule(name)
           /\ calls[c].params \in VocabularyCalls => calls[c].result.valid

\* Call c ended as the same call ends on a Validator of its own.
AsAlone(c) ==
    /\ calls[c].pc = RunAlone(calls[c].params).pc
    /\ calls[c].result = RunAlone(calls[c].params).result

\* C24: on one shared instance a finished call differs from the same call
\* run alone only if another call was in flight during it; the witness is
\* the interleaving in which it does differ.
C24_OnlyOverlapDiverges ==
    \A c \in CallIds : Finished(c) /\ ~calls[c].overlapped => AsAlone(c)

\* C24 witness: the second call started while the first was suspended at
\* its await, and the first then returned something else than it returns
\* alone, while the second is still suspended.
C24_Witness ==
    /\ calls[1].pc = "returned"
    /\ calls[1].overlapped
    /\ ~AsAlone(1)
    /\ InFlight(2)

\* C30: every call of SQON.validateData ends as it does when run alone,
\* whatever calls overlap it.
C30_ValidateDataIsolated ==
    \A c \in CallIds : Finished(c) => AsAlone(c)

\* C30 witness: two calls of validateData overlapped and both returned,
\* the first with its diagnostic and the second valid.
C30_Witness ==
    /\ calls[1].pc = "returned" /\ calls[1].overlapped
    /\ calls[2].pc = "returned" /\ calls[2].overlapped
    /\ Len(calls[1].result.errors) = 1
    /\ calls[2].result.valid

\* The diagnostics of `later` that `first` does not hold.
NewDiagnostics(first, later) ==
    {later[i] : i \in 1..Len(later)} \ {first[i] : i \in 1..Len(first)}

\* C25: when parse has returned a second time for a well-formed document,
\* on a new instance or on the same one, the Schema Tree, the RuleSet and
\* the Record list equal those of the first parse and no diagnostic was
\* added that the first parse did not produce.
C25_ParseTwice ==
    status = "returned" /\ parses # <<>> /\ OriginalLines \in WellFormedDocs =>
        /\ result.schema = parses[1].result.schema
        /\ result.validations = parses[1].result.validations
        /\ result.records = parses[1].result.records
        /\ NewDiagnostics(parses[1].result.errors, result.errors) = {}

\* The dot-paths of the validation lines.
RulePaths ==
    {<<"age">>, <<"name">>, <<"user">>, <<"user", ".", "age">>, <<"user", ".", "address">>,
     <<"user", ".", "rules">>, <<"items">>, <<"items", ".", "sku">>, <<"meta">>}
Merged == VAtLine /\ VIsRuleLine /\ ~compiler'.thrown /\ ~ReportedHere(compiler', compiler.position + 1)
NamesRules(key) == \E i \in 1..Len(key) : key[i] = "rules"

\* C29: compiling an accepted validation line at dot-path P leaves the
\* rules of every other dot-path, P's ancestors included, as they were.
C29_OnlyPathChanges ==
    [][Merged =>
        \A path \in RulePaths \ {VKey} :
            RulesAt(compiler'.validations, path) = RulesAt(compiler.validations, path)
      ]_vars

\* The same for the lines whose path has no field named `rules`.
C29_OtherNamesKept ==
    [][Merged /\ ~NamesRules(VKey) =>
        \A path \in RulePaths \ {VKey} :
            RulesAt(compiler'.validations, path) = RulesAt(compiler.validations, path)
      ]_vars

\* One step of parseLines moves the cursor forward: it never moves back, an
\* iteration after which the loop goes on has advanced it, past the lines
\* its compiler consumed, and the validation compiler of a full document
\* hands it back on the section's @end or at the end of input.
CursorStep ==
    /\ position' >= position
    /\ status' = "running" => position' > position
    /\ Running /\ Line = ValidationsMarker /\ section = "none" /\ status' = "running" =>
            /\ position' >= position + 2
            /\ position' > Len(lines) \/ lines[position'] = EndMarker

\* C26: every step of parseLines satisfies CursorStep, and parseLines
\* terminates (returns or raises) on every document.
C26_CursorAdvances == [][CursorStep]_vars /\ <>(status # "running")

\* C26 witness: parseLines returned with the cursor at the end of a document
\* whose three sections were compiled.
C26_Witness ==
    /\ status = "returned"
    /\ section = "none"
    /\ Len(compiled) = 3
    /\ position = Len(lines)
    /\ position >= 9

====
